---- MODULE Spec2Model ----
(***************************************************************************)
(* Letter-request intake, hourly batch scheduler and JSON document store   *)
(* of mari-local (letter_request_manager.py, async_rate_limiter.py,        *)
(* batch_scheduler.py, async_storage_manager.py).                          *)
(*                                                                         *)
(* Granularity.  The code is asyncio code: a coroutine runs without        *)
(* interruption up to its next real suspension.  The store calls never     *)
(* suspend (the lock is uncontended inside one loop and the file I/O is    *)
(* synchronous), so the only suspension points of a batch are the network  *)
(* call of the content pipeline and a wait on the semaphore.  One action   *)
(* is one such uninterrupted segment.                                      *)
(***************************************************************************)
EXTENDS Integers, Sequences, FiniteSets, TLC

\* ---------------------------------------------------------------- bounds
NumUsers == 2
MaxDay == 1
MaxRuns == 2
MaxFaults == 1
MaxConcurrency == 2
MaxSubmits == 2
MaxStamp == 2
MaxThreads == 3

\* ------------------------------------------------------ program constants
max_daily_requests_default == 1
max_api_calls_default == 10
debug_max_daily_requests == 10
debug_max_api_calls == 100
min_theme_length == 1
\* a character with ord(char) < 32 other than newline, return and tab
control_char == "ctrl"
max_theme_length == 200
valid_generation_hours == {2, 3, 4}
available_hours == {2, 3, 4}

Users == 1..NumUsers
Days == 0..MaxDay

\* Inputs of submit_request and run_hourly_batch.  A theme is its sequence
\* of characters; an hour outside {2,3,4} is among the inputs.
LongTheme == [ i \in 1..(max_theme_length + 1) |-> "b" ]

ThemeInputs == { <<>>, <<" ">>, <<" ", "b", " ">>, <<"b", control_char>>, LongTheme }
HourInputs == {2, 3, 5}
BatchHourInputs == {2, 5}

VARIABLES
    doc,          \* the persisted document: users and system.batch_runs
    debug_mode,   \* AsyncRateLimitManager.debug_mode (selects the thresholds)
    max_concurrent_generations, \* BatchScheduler.max_concurrent_generations
    today,        \* the calendar day datetime.now() falls in
    clock,        \* the second datetime.now() falls in, sampled when a batch starts
    next_uuid,    \* uuid.uuid4(): per (user, day), how many request ids have been drawn
    runs,         \* the run_hourly_batch invocations made so far, in call order
    last_submit,  \* the last submit_request call: whether its arguments pass validation, the store call that raised, its result
    accepted,     \* the (user, day) pairs for which a submit_request call has returned success
    faults,       \* number of store calls that have raised so far
    submits,      \* number of submit_request calls made so far
    primary,      \* document file: the primary file (file_path)
    temp,         \* document file: the .tmp file next to it
    backups,      \* document file: the files of the backup directory
    default_mem,  \* document file: self.default_data as it is in memory
    pc,           \* document file: how far the _save_data_unsafe in progress has got
    call,         \* document file: the storage call in progress
    ret,          \* document file: how the last storage call ended, with the files it left
    hour_now,     \* background loop: the hour of the day datetime.now() falls in
    is_running,   \* BackgroundProcessor.is_running
    stop_event,   \* BackgroundProcessor.stop_event
    background_thread, \* BackgroundProcessor.background_thread: index into loops, 0 for None
    loops,        \* the threads start_background_processing has started, in order
    last_execution_times, \* BackgroundProcessor.last_execution_times
    last_cleanup_date,    \* BackgroundProcessor.last_cleanup_date
    forced,       \* the force_run_batch call in progress
    joining,      \* stop_background_processing is inside background_thread.join
    last_call,    \* the last start / stop call that has returned, and what it returned
    invoked,      \* per (hour, day): the run_hourly_batch invocations the loops have made
    polled,       \* the (target hour, day) pairs at which a loop has polled
    cleanup_result, \* the last BatchScheduler.cleanup_old_data call, until the store is written again
    tasks,        \* the update_user_data calls in progress, one per calling thread
    limit_check,  \* the last is_request_allowed / check_daily_request_limit call and its results
    pipelines     \* the generate_letter calls in progress, one per job

vars == << doc, debug_mode, max_concurrent_generations, today, clock, next_uuid,
           runs, last_submit, accepted, faults, submits, primary, temp, backups,
           default_mem, pc, call, ret, hour_now, is_running, stop_event,
           background_thread, loops, last_execution_times, last_cleanup_date, forced,
           joining, last_call, invoked, polled, cleanup_result, tasks, limit_check,
           pipelines >>

sysvars == << doc, debug_mode, max_concurrent_generations, today, clock, next_uuid,
              runs, last_submit, accepted, faults, submits >>
filevars == << primary, temp, backups, default_mem, pc, call, ret >>
runvars == << hour_now, is_running, stop_event, background_thread, loops,
              last_execution_times, last_cleanup_date, forced, joining, last_call,
              invoked, polled >>
auxvars == << tasks, limit_check, pipelines >>

\* --------------------------------------------------------------- helpers
Put(f, k, v) == [x \in (DOMAIN f) \cup {k} |-> IF x = k THEN v ELSE f[x]]

GetOr(f, k, dflt) == IF k \in DOMAIN f THEN f[k] ELSE dflt

EmptyMap == [x \in {} |-> 0]

\* theme.strip(): drop leading and trailing blanks
RECURSIVE LStrip(_)
LStrip(s) == IF s /= <<>> /\ Head(s) = " " THEN LStrip(Tail(s)) ELSE s

RECURSIVE RStrip(_)
RStrip(s) == IF s /= <<>> /\ s[Len(s)] = " " THEN RStrip(SubSeq(s, 1, Len(s) - 1)) ELSE s

Strip(s) == RStrip(LStrip(s))

\* ------------------------------------------------ AsyncStorageManager (document level)
NoDay == 0 - 1

default_user ==
    [ requests |-> EmptyMap, letters |-> EmptyMap,
      daily_requests |-> EmptyMap, api_calls |-> EmptyMap,
      total_letters |-> 0, last_request |-> NoDay, history |-> 0 ]

default_data == [ users |-> EmptyMap, batch_runs |-> EmptyMap ]

\* get_user_data: an unknown user is created with the defaults and saved
get_user_data(d, u) ==
    IF u \in DOMAIN d.users
    THEN [ doc |-> d, user |-> d.users[u] ]
    ELSE [ doc |-> [d EXCEPT !.users = Put(@, u, default_user)],
           user |-> default_user ]

\* update_user_data: load, data["users"][user_id] = user_data, save
update_user_data(d, u, rec) == [d EXCEPT !.users = Put(@, u, rec)]

\* get_all_users: the keys of data["users"], in insertion order.  User ids
\* are opaque labels: they are numbered here in the order the store first
\* saw them, so insertion order is ascending order.
RECURSIVE Ascending(_)
Ascending(S) ==
    IF S = {} THEN <<>>
    ELSE LET m == CHOOSE x \in S : \A y \in S : x <= y
         IN  <<m>> \o Ascending(S \ {m})

get_all_users(d) == Ascending(DOMAIN d.users)

\* ------------------------------------------------------ AsyncRateLimitManager
max_daily_requests == IF debug_mode THEN debug_max_daily_requests ELSE max_daily_requests_default

max_api_calls_per_day == IF debug_mode THEN debug_max_api_calls ELSE max_api_calls_default

\* a daily check that still lets a user through who is at the maximum
check_daily_request_limit_inclusive(d, u, day, raises) ==
    IF raises
    THEN [ doc |-> d, allowed |-> FALSE ]
    ELSE LET g == get_user_data(d, u)
         IN  [ doc |-> g.doc,
               allowed |-> GetOr(g.user.daily_requests, day, 0) <= max_daily_requests ]

\* check_daily_request_limit; raises = the store call inside it raises
check_daily_request_limit(d, u, day, raises) ==
    IF raises
    THEN [ doc |-> d, allowed |-> FALSE ]
    ELSE LET g == get_user_data(d, u)
         IN  [ doc |-> g.doc,
               allowed |-> GetOr(g.user.daily_requests, day, 0) < max_daily_requests ]

\* a limit check that lets the request through when the store raises
check_api_call_limit_failopen(d, u, day, raises) ==
    IF raises
    THEN [ doc |-> d, allowed |-> TRUE ]
    ELSE LET g == get_user_data(d, u)
         IN  [ doc |-> g.doc,
               allowed |-> GetOr(g.user.api_calls, day, 0) < max_api_calls_per_day ]

\* check_api_call_limit
check_api_call_limit(d, u, day, raises) ==
    IF raises
    THEN [ doc |-> d, allowed |-> FALSE ]
    ELSE LET g == get_user_data(d, u)
         IN  [ doc |-> g.doc,
               allowed |-> GetOr(g.user.api_calls, day, 0) < max_api_calls_per_day ]

\* is_request_allowed; f = 1: the store raises in the daily check, f = 2: in
\* the API check.  raised: the call named by f was made (and raised).
is_request_allowed(d, u, day, f) ==
    LET r1 == check_daily_request_limit(d, u, day, f = 1)
    IN  IF ~r1.allowed
        THEN [ doc |-> r1.doc, allowed |-> FALSE, msg |-> "daily_limit", raised |-> f = 1 ]
        ELSE LET r2 == check_api_call_limit(r1.doc, u, day, f = 2)
             IN  IF ~r2.allowed
                 THEN [ doc |-> r2.doc, allowed |-> FALSE, msg |-> "api_limit",
                        raised |-> f \in {1, 2} ]
                 ELSE [ doc |-> r2.doc, allowed |-> TRUE, msg |-> "ok",
                        raised |-> f \in {1, 2} ]

\* record_request; f = 1: get_user_data raises, f = 2: update_user_data raises
record_request(d, u, day, f) ==
    IF f \in {1, 2}
    THEN [ doc |-> d, raised |-> TRUE ]
    ELSE LET g == get_user_data(d, u)
             rec == [g.user EXCEPT
                        !.daily_requests = Put(@, day, GetOr(@, day, 0) + 1),
                        !.last_request = day]
         IN  [ doc |-> update_user_data(g.doc, u, rec), raised |-> FALSE ]

\* ------------------------------------------------------------ RequestManager
validate_theme(theme) ==
    LET stripped == Strip(theme)
    IN  /\ theme /= <<>>
        /\ Len(stripped) >= min_theme_length
        /\ Len(stripped) <= max_theme_length
        /\ \A i \in 1..Len(stripped) : stripped[i] /= control_char

\* a validation that lets every hour through
validate_generation_hour_any(hour) == TRUE

validate_generation_hour(hour) == hour \in valid_generation_hours

\* _get_user_request_for_date: None (here the empty set) when there is no
\* request, and also when the store raises
get_user_request_for_date(d, u, day, raises) ==
    IF raises THEN {}
    ELSE LET g == get_user_data(d, u)
         IN  IF day \in DOMAIN g.user.requests THEN {g.user.requests[day]} ELSE {}

\* a submit_request without its except clause: the exception leaves the call
submit_except_none == "raised"

\* submit_request, lines 95-97: except Exception, log, return (False, message)
submit_except == "returned"

\* submit_request.  f names the store call that raises: 0 none, 1 daily
\* check, 2 API check, 3 existing-request lookup, 4 get_user_data,
\* 5 update_user_data, 6 and 7 the two store calls of record_request.
\* raised: the call named by f was made (and raised).
submit_request(d, day, u, theme, hour, f, id) ==
    IF ~validate_theme(theme)
    THEN [ doc |-> d, success |-> FALSE, msg |-> "theme", allowed |-> "skipped", raised |-> FALSE,
           outcome |-> "returned" ]
    ELSE IF ~validate_generation_hour(hour)
    THEN [ doc |-> d, success |-> FALSE, msg |-> "hour", allowed |-> "skipped", raised |-> FALSE,
           outcome |-> "returned" ]
    ELSE
    LET ra == is_request_allowed(d, u, day, f)
    IN  IF ~ra.allowed
        THEN [ doc |-> ra.doc, success |-> FALSE, msg |-> ra.msg, allowed |-> "denied",
               raised |-> ra.raised, outcome |-> "returned" ]
        ELSE
        LET existing == get_user_request_for_date(ra.doc, u, day, f = 3)
        IN  IF existing /= {}
            THEN [ doc |-> ra.doc, success |-> FALSE, msg |-> "duplicate",
                   allowed |-> "allowed", raised |-> ra.raised \/ f = 3,
                   outcome |-> "returned" ]
            ELSE IF f \in {4, 5}
            THEN [ doc |-> ra.doc, success |-> FALSE, msg |-> "error",
                   allowed |-> "allowed", raised |-> TRUE,
                   outcome |-> submit_except ]
            ELSE
            LET request_data == [ theme |-> Strip(theme), status |-> "pending",
                                  generation_hour |-> hour, request_id |-> id,
                                  processed_at |-> FALSE, error_message |-> FALSE ]
                g == get_user_data(ra.doc, u)
                d5 == update_user_data(g.doc, u,
                          [g.user EXCEPT !.requests = Put(@, day, request_data)])
                rr == record_request(d5, u, day, IF f = 6 THEN 1 ELSE IF f = 7 THEN 2 ELSE 0)
            IN  IF rr.raised
                THEN [ doc |-> d5, success |-> FALSE, msg |-> "error",
                       allowed |-> "allowed", raised |-> TRUE,
                       outcome |-> submit_except ]
                ELSE [ doc |-> rr.doc, success |-> TRUE, msg |-> "accepted",
                       allowed |-> "allowed", raised |-> ra.raised \/ f = 3,
                       outcome |-> "returned" ]

RequestOf(d, u, day) ==
    IF u \in DOMAIN d.users /\ day \in DOMAIN d.users[u].requests
    THEN {d.users[u].requests[day]} ELSE {}

\* mark_request_processed; f = 1: get_user_data raises, f = 2: update_user_data
\* raises.  Either exception is caught and only logged (the call returns False).
mark_request_processed(d, u, date, status, f) ==
    IF f \in {1, 2} THEN d
    ELSE LET g == get_user_data(d, u)
         IN  IF date \notin DOMAIN g.user.requests THEN g.doc
             ELSE update_user_data(g.doc, u,
                      [g.user EXCEPT !.requests[date].status = status,
                                     !.requests[date].processed_at = TRUE])

\* mark_request_failed
mark_request_failed(d, u, date, f) ==
    IF f \in {1, 2} THEN d
    ELSE LET g == get_user_data(d, u)
         IN  IF date \notin DOMAIN g.user.requests THEN g.doc
             ELSE update_user_data(g.doc, u,
                      [g.user EXCEPT !.requests[date].status = "failed",
                                     !.requests[date].processed_at = TRUE,
                                     !.requests[date].error_message = TRUE])

\* get_pending_requests_by_hour: today's requests with that hour and status
\* pending, one entry per user in the order of data["users"]; [] when the
\* store raises
IsPendingFor(d, day, hour, u) ==
    /\ day \in DOMAIN d.users[u].requests
    /\ d.users[u].requests[day].generation_hour = hour
    /\ d.users[u].requests[day].status = "pending"

get_pending_requests_by_hour(d, day, hour, raises) ==
    IF hour \notin valid_generation_hours \/ raises THEN <<>>
    ELSE LET Test(u) == IsPendingFor(d, day, hour, u)
             sel == SelectSeq(get_all_users(d), Test)
         IN  [ i \in 1..Len(sel) |->
                 [ user_id |-> sel[i],
                   theme |-> d.users[sel[i]].requests[day].theme,
                   generation_hour |-> d.users[sel[i]].requests[day].generation_hour,
                   request_id |-> d.users[sel[i]].requests[day].request_id,
                   date |-> day ] ]

\* ----------------------------------------------------------------- UserManager
max_history_entries == 100

\* update_user_history; f = 1, 2 as above (caught, returns False).  The batch
\* passes an interaction without "type": no counter of the profile changes.
update_user_history(d, u, f) ==
    IF f \in {1, 2} THEN d
    ELSE LET g == get_user_data(d, u)
         IN  update_user_data(g.doc, u,
                 [g.user EXCEPT !.history = IF @ + 1 > max_history_entries
                                            THEN max_history_entries ELSE @ + 1])

\* -------------------------------------------------------------- BatchScheduler
\* a _save_generated_letter that stores the letter and leaves the profile alone
save_generated_letter_letter_only(d, u, date, theme, f) ==
    IF f \in {1, 2} THEN [ doc |-> d, raised |-> TRUE ]
    ELSE LET g == get_user_data(d, u)
             rec == [g.user EXCEPT
                        !.letters = Put(@, date, [theme |-> theme, status |-> "completed"])]
         IN  [ doc |-> update_user_data(g.doc, u, rec), raised |-> FALSE ]

\* _save_generated_letter; f = 1, 2 as above; the exception is re-raised.  The
\* content stored is the text the pipeline returned.
save_generated_letter(d, u, date, theme, f) ==
    IF f \in {1, 2} THEN [ doc |-> d, raised |-> TRUE ]
    ELSE LET g == get_user_data(d, u)
             rec == [g.user EXCEPT
                        !.letters = Put(@, date, [theme |-> theme, status |-> "completed"]),
                        !.total_letters = @ + 1,
                        !.last_request = date]
         IN  [ doc |-> update_user_data(g.doc, u, rec), raised |-> FALSE ]

\* _record_batch_start / _record_batch_completion (exceptions caught and logged)
record_batch_start(d, id, hour) ==
    [d EXCEPT !.batch_runs =
        Put(@, id, [ hour |-> hour, status |-> "running", processed_count |-> 0,
                     success_count |-> 0, failed_count |-> 0, error_count |-> 0 ])]

record_batch_completion(d, id, result) ==
    IF id \notin DOMAIN d.batch_runs THEN d
    ELSE [d EXCEPT !.batch_runs[id] =
            [@ EXCEPT !.status = "completed",
                      !.processed_count = result.processed_count,
                      !.success_count = result.success_count,
                      !.failed_count = result.failed_count,
                      !.error_count = Len(result.errors)]]

NoResult ==
    [ success |-> FALSE, processed_count |-> 0, success_count |-> 0,
      failed_count |-> 0, errors |-> <<>> ]

\* an aggregation that gives up on the whole batch at the first failed job
RECURSIVE Aggregate_failfast(_, _, _)
Aggregate_failfast(pending, jobs, i) ==
    IF \E j \in 1..Len(jobs) : ~jobs[j].success
    THEN [ success |-> FALSE, processed_count |-> Len(pending), success_count |-> 0,
           failed_count |-> Len(pending), errors |-> <<>> ]
    ELSE [ success |-> TRUE, processed_count |-> Len(pending),
           success_count |-> Len(pending), failed_count |-> 0, errors |-> <<>> ]

\* an aggregation that counts a failed job and records no error for it
RECURSIVE Aggregate_uncounted(_, _, _)
Aggregate_uncounted(pending, jobs, i) ==
    IF i > Len(jobs)
    THEN [ success |-> TRUE, processed_count |-> Len(pending), success_count |-> 0,
           failed_count |-> 0, errors |-> <<>> ]
    ELSE LET rest == Aggregate_uncounted(pending, jobs, i + 1)
         IN  IF jobs[i].success
             THEN [rest EXCEPT !.success_count = @ + 1]
             ELSE [rest EXCEPT !.failed_count = @ + 1]

\* the aggregation loop of process_pending_requests_for_hour over the
\* results gathered from the jobs
RECURSIVE Aggregate(_, _, _)
Aggregate(pending, jobs, i) ==
    IF i > Len(jobs)
    THEN [ success |-> TRUE, processed_count |-> Len(pending), success_count |-> 0,
           failed_count |-> 0, errors |-> <<>> ]
    ELSE LET rest == Aggregate(pending, jobs, i + 1)
         IN  IF jobs[i].success
             THEN [rest EXCEPT !.success_count = @ + 1]
             ELSE [rest EXCEPT !.failed_count = @ + 1,
                               !.errors = <<pending[i].user_id>> \o @]

\* number of jobs of a run that hold its semaphore
InFlight(run) == Cardinality({ i \in 1..Len(run.jobs) : run.jobs[i].state = "generating" })

\* the first waiter of the semaphore (asyncio wakes waiters in FIFO order)
FirstWaiting(run) ==
    { i \in 1..Len(run.jobs) :
        /\ run.jobs[i].state = "waiting"
        /\ \A j \in 1..(i - 1) : run.jobs[j].state /= "waiting" }

\* a semaphore that admits one job more than its value
semaphore_acquire_one_more(run, i) ==
    /\ InFlight(run) < max_concurrent_generations + 1
    /\ i \in FirstWaiting(run)

\* async with semaphore: job i of the run may enter when a slot is free and
\* it is the first waiter
semaphore_acquire(run, i) ==
    /\ InFlight(run) < max_concurrent_generations
    /\ i \in FirstWaiting(run)

\* --------------------------------------------------------- AsyncStorageManager
\* the document file and its backups.  A document is kept as: body, the
\* user data it holds ("none": an empty users map); repaired, whether every
\* key the repair pass supplies is present; last_backup, whether
\* system.last_backup is set.
backup_retention_days == 7

no_doc == [ body |-> "none", repaired |-> FALSE, last_backup |-> FALSE ]

\* self.default_data as __init__ builds it
default_file_data == [ body |-> "none", repaired |-> TRUE, last_backup |-> FALSE ]

\* a document written by an earlier version: keys are missing
legacy_doc == [ body |-> "a", repaired |-> FALSE, last_backup |-> FALSE ]

\* the dicts a caller may hand to save_data
SaveInputs == [ body : {"a"}, repaired : BOOLEAN, last_backup : {FALSE} ]

\* a file: absent, empty (size 0), valid (a serialized document) or partial
\* (a truncated serialization, which json.load rejects).  mtime is its
\* modification time; old: that time is more than the retention window
\* (backup_retention_days) ago.  Modification times are compared with each
\* other (max over the backups) and never measured, so a write is stamped
\* with the least time that is later than the time of every backup: see now.
absent_file == [ kind |-> "absent", doc |-> no_doc, mtime |-> 0, old |-> FALSE ]

empty_file == [ kind |-> "empty", doc |-> no_doc, mtime |-> 0, old |-> FALSE ]

json_file(d, stamp) == [ kind |-> "valid", doc |-> d, mtime |-> stamp, old |-> FALSE ]

truncated_file(stamp) == [ kind |-> "partial", doc |-> no_doc, mtime |-> stamp, old |-> FALSE ]

\* a repair pass that returns the document as it got it
validate_and_repair_data_skipped(d) == d

\* _validate_and_repair_data: the missing keys are supplied, the rest is kept
validate_and_repair_data(d) == [d EXCEPT !.repaired = TRUE]

\* a save that writes the new serialization straight into the primary file
write_in_place(files, content) == [files EXCEPT !.primary = content]

\* open(temp_path, 'w') / json.dump: the bytes go to the .tmp file
write_temp(files, content) == [files EXCEPT !.temp = content]

\* an error path that leaves the .tmp file behind
cleanup_temp_skipped(t) == t

\* the error path of _save_data_unsafe: temp_path.unlink() if it exists
cleanup_temp(t) == absent_file

\* the time a write is stamped with: later than every backup there is
now(bs) == IF bs = {} THEN 1 ELSE 1 + (CHOOSE m \in { b.mtime : b \in bs } : \A b \in bs : b.mtime <= m)

\* max(backup_files, key=st_mtime); files with equal times are copies of the
\* same primary file
latest_backup(bs) == { b \in bs : \A c \in bs : c.mtime <= b.mtime }

\* _cleanup_old_backups: unlink the files whose mtime is before now - 7 days
cleanup_old_backups(bs) == { b \in bs : ~b.old }

\* What load_data does with the primary file it finds: return plan.data
\* (write = FALSE) or first _save_data_unsafe(plan.data).  phase "default":
\* the default document is written; "restore": the latest backup is.
default_plan(dflt) == [ phase |-> "default", data |-> dflt, write |-> TRUE ]

restore_from_backup(bs, dflt) ==
    IF bs = {} THEN { default_plan(dflt) }
    ELSE { IF b.kind = "valid"
           THEN [ phase |-> "restore", data |-> b.doc, write |-> TRUE ]
           ELSE default_plan(dflt) : b \in latest_backup(bs) }

load_data(p, bs, dflt) ==
    IF p.kind \in {"absent", "empty"} THEN { default_plan(dflt) }
    ELSE IF p.kind = "valid"
    THEN { [ phase |-> "read", data |-> validate_and_repair_data(p.doc), write |-> FALSE ] }
    ELSE restore_from_backup(bs, dflt)

\* what is remembered of a call that a crash ended: the stage of the save, the
\* primary file before that save, the document being saved, the primary file
\* the crash left
no_prev ==
    [ status |-> "none", stage |-> "none", pre |-> absent_file, post |-> no_doc,
      primary |-> absent_file ]

idle_call ==
    [ op |-> "none", phase |-> "none", data |-> no_doc, before |-> absent_file,
      pre |-> absent_file, backups |-> {}, failures |-> 0, prev |-> no_prev ]

no_ret ==
    [ op |-> "none", status |-> "none", stage |-> "none", data |-> no_doc,
      before |-> absent_file, pre |-> absent_file, backups |-> {}, failures |-> 0,
      primary |-> absent_file, temp |-> absent_file, prev |-> no_prev ]

\* the record of a call that has ended: c the call, p and t the primary and
\* .tmp files it leaves; prev tells of the crash that ended the call before it
Return(status, stage, data, c, p, t) ==
    [ op |-> c.op, status |-> status, stage |-> stage, data |-> data,
      before |-> c.before, pre |-> c.pre, backups |-> c.backups, failures |-> c.failures,
      primary |-> p, temp |-> t, prev |-> c.prev ]

SaveStages == {"save", "tmp_partial", "tmp_written"}


\* ------------------------------------------------------------ retention cleanup
\* Dates are "%Y-%m-%d" strings, compared as strings: the order of the days.
RetentionInputs == {0, 1}
SeedKinds == {"requests", "letters", "daily_requests", "api_calls"}

no_cleanup == [ called |-> FALSE, days |-> 0, fault |-> 0, users |-> {}, deleted_letters |-> 0 ]

Keep(m, cutoff) == [ k \in { x \in DOMAIN m : ~(x < cutoff) } |-> m[k] ]

\* the loop body of AsyncStorageManager.cleanup_old_data for one user
prune_user(rec, cutoff) ==
    [rec EXCEPT !.letters = Keep(@, cutoff), !.requests = Keep(@, cutoff),
                !.daily_requests = Keep(@, cutoff), !.api_calls = Keep(@, cutoff)]

\* AsyncStorageManager.cleanup_old_data: the entries are deleted from the
\* loaded document, deleted_count counts the letters, and the document is
\* saved only if deleted_count > 0; an exception is logged and 0 returned
storage_cleanup_old_data(d, date, days, raises) ==
    LET cutoff == date - days
        pruned == [d EXCEPT !.users = [ u \in DOMAIN d.users |-> prune_user(d.users[u], cutoff) ]]
        deleted_count == Cardinality({ p \in (DOMAIN d.users) \X Days :
                                         /\ p[2] \in DOMAIN d.users[p[1]].letters
                                         /\ p[2] < cutoff })
    IN  IF raises THEN [ doc |-> d, deleted |-> 0 ]
        ELSE [ doc |-> IF deleted_count > 0 THEN pruned ELSE d, deleted |-> deleted_count ]

\* RequestManager.cleanup_old_requests: per user, the old requests are
\* deleted and the user saved if there were any; an exception is logged and
\* 0 returned
cleanup_old_requests(d, date, days, raises) ==
    LET cutoff == date - days
    IN  IF raises THEN d
        ELSE [d EXCEPT !.users = [ u \in DOMAIN d.users |->
                                     [d.users[u] EXCEPT !.requests = Keep(@, cutoff)] ]]

\* BatchScheduler.cleanup_old_data: the two cleanups, then backup_data (which
\* writes system.last_backup and no user).  f = 1: the store raises inside
\* the first cleanup, f = 2: inside the second, before any user is written.
cleanup_old_data(d, date, days, f) ==
    LET first == storage_cleanup_old_data(d, date, days, f = 1)
    IN  [ doc |-> cleanup_old_requests(first.doc, date, days, f = 2),
          deleted |-> first.deleted ]

\* what a day of use leaves in the record of a user
seed_value(kind, u, day) ==
    IF kind = "requests"
    THEN [ theme |-> <<"a">>, status |-> "completed", generation_hour |-> 2,
           request_id |-> << u, day, 1 >>, processed_at |-> TRUE, error_message |-> FALSE ]
    ELSE IF kind = "letters" THEN [ theme |-> <<"a">>, status |-> "completed" ]
    ELSE 1

seed(d, u, day, kind) ==
    LET g == get_user_data(d, u)
        v == seed_value(kind, u, day)
        rec == IF kind = "requests" THEN [g.user EXCEPT !.requests = Put(@, day, v)]
               ELSE IF kind = "letters" THEN [g.user EXCEPT !.letters = Put(@, day, v)]
               ELSE IF kind = "daily_requests"
               THEN [g.user EXCEPT !.daily_requests = Put(@, day, v)]
               ELSE [g.user EXCEPT !.api_calls = Put(@, day, v)]
    IN  update_user_data(g.doc, u, rec)

\* ------------------------------------------ update_user_data, call by call
\* The callers of the store run on different threads (the thread of the
\* background loop, the script threads of the UI sessions), each inside its
\* own event loop: between the load_data and the save_data of one
\* update_user_data call another thread may run its own store calls.  The
\* lock is held inside load_data and inside save_data, not between them.
Callers == {1, 2}

idle_task == [ pc |-> "idle", user |-> 0, data |-> default_data, rec |-> default_user ]

\* of: the call each caller is in; written: per user, the record the last
\* update_user_data call that has returned for that user was given
no_tasks == [ of |-> [ c \in Callers |-> idle_task ], written |-> EmptyMap ]

\* an update_user_data that takes the lock for the whole call: what it saves
\* is the document as it is now, with the record replaced
save_under_one_lock(task, d) == update_user_data(d, task.user, task.rec)

\* update_user_data, lines 140-141: the record is put into the document the
\* call loaded, and that document is saved
save_loaded(task, d) == update_user_data(task.data, task.user, task.rec)

\* ------------------------------------------------------- the limit checks
\* what a counter of the day may hold when a check is made: no entry, or a
\* count at, next to or away from one of the thresholds
missing == 0 - 1
CountInputs == { missing, 0, max_daily_requests_default, max_api_calls_default - 1,
                 max_api_calls_default, debug_max_api_calls - 1, debug_max_api_calls }

no_check == [ op |-> "none", user |-> 0, fault |-> 0, allowed |-> FALSE ]

\* a counter map with the given count for the day (none for missing); past:
\* the day before holds a count above every threshold
counter(day, count, past) ==
    [ k \in (IF count = missing THEN {} ELSE {day}) \cup (IF past THEN {day - 1} ELSE {})
        |-> IF k = day THEN count ELSE debug_max_api_calls + 1 ]


\* ------------------------------------ LetterGenerator, GroqClient, TogetherClient
\* Both clients: self.max_retries, self.retry_delay (seconds)
max_retries == 3
retry_delay == 1

\* the jobs that may be generating at the same time
Jobs == 1..MaxConcurrency

Stages == {"structure", "emotion"}

\* One generate_letter call.  stage: where it is ("idle" before the call;
\* "structure": in generate_structure; "emotion": in enhance_emotion;
\* "returned", "raised", "cancelled": how it ended).  attempt: the loop
\* variable of the retry loop; at: "call" inside the API call, "sleep" inside
\* asyncio.sleep.  Per stage: calls, the API calls made; failures, those that
\* raised; waits, the delays slept, in order.
idle_pipeline ==
    [ stage |-> "idle", attempt |-> 0, at |-> "call",
      calls |-> [ st \in Stages |-> 0 ], failures |-> [ st \in Stages |-> 0 ],
      waits |-> [ st \in Stages |-> <<>> ], ended_in |-> "none" ]

no_pipelines == [ j \in Jobs |-> idle_pipeline ]

\* a retry loop that sleeps the same delay after every failure
backoff_constant(attempt) == retry_delay

\* await asyncio.sleep(self.retry_delay * (2 ** attempt))
backoff(attempt) == retry_delay * (2 ^ attempt)

\* if attempt == self.max_retries - 1: raise
last_attempt(attempt) == attempt = max_retries - 1

\* one API call of the retry loop of a stage and what follows it in the loop
\* body: ok, the call returned (status 200 and a message in the response);
\* otherwise it raised
api_call(pl, ok) ==
    LET st == pl.stage
        called == [pl EXCEPT !.calls[st] = @ + 1]
    IN  IF ok
        THEN IF st = "structure"
             THEN [called EXCEPT !.stage = "emotion", !.attempt = 0, !.at = "call"]
             ELSE [called EXCEPT !.stage = "returned", !.ended_in = st]
        ELSE LET failed == [called EXCEPT !.failures[st] = @ + 1]
             IN  IF last_attempt(pl.attempt)
                 THEN [failed EXCEPT !.stage = "raised", !.ended_in = st]
                 ELSE [failed EXCEPT !.at = "sleep",
                                     !.waits[st] = Append(@, backoff(pl.attempt))]


\* ========================================================= BackgroundProcessor
\* The background loop runs in a thread of its own; start and stop are called
\* from the thread of the application.  The loop awaits run_hourly_batch and
\* cleanup_old_data: both catch every Exception they meet and return a result
\* (batch_scheduler.py 117-135, 433-441), so for the loop a call is a
\* suspension that ends with a result.  A thread is: pc, "sleep" (in the wait
\* between two polls, or not yet at its first poll), "batch", "cleanup" (in the
\* await) or "exited"; hour, date: what datetime.now() gave at the poll that
\* started the await; raised: a callback raised in the iteration before.
target_hours == {2, 3, 4}
cleanup_hour == 1

\* the hours the wall clock of the model goes through in a day: an hour with
\* nothing to do, the cleanup hour and a target hour (every other hour of the
\* day is to the loop like one of these)
HoursOfDay == {0, cleanup_hour, 2}
Threads == 1..MaxThreads

no_date == NoDay
sleeping == [ pc |-> "sleep", hour |-> 0, date |-> no_date, raised |-> FALSE ]

Alive(ls) == { t \in 1..Len(ls) : ls[t].pc /= "exited" }
InBatch(ls) == { t \in 1..Len(ls) : ls[t].pc = "batch" }

no_call == [ op |-> "none", was_running |-> FALSE, returned |-> FALSE,
             running_after |-> FALSE, started |-> FALSE ]
no_force == [ state |-> "idle", hour |-> 0 ]

\* BackgroundProcessor.__init__
RunnerInit ==
    /\ hour_now = 0
    /\ is_running = FALSE
    /\ stop_event = FALSE
    /\ background_thread = 0
    /\ loops = <<>>
    /\ last_execution_times = [ h \in target_hours |-> no_date ]
    /\ last_cleanup_date = no_date
    /\ forced = no_force
    /\ joining = FALSE
    /\ last_call = no_call
    /\ invoked = [ h \in target_hours, d \in Days |-> 0 ]
    /\ polled = {}
    /\ cleanup_result = no_cleanup
    /\ tasks = no_tasks
    /\ limit_check = no_check
    /\ pipelines = no_pipelines

\* ---------------------------------------------------------------------- Init
FileInit ==
    /\ primary = absent_file
    /\ temp = absent_file
    /\ backups = {}
    /\ default_mem = default_file_data
    /\ pc = "idle"
    /\ call = idle_call
    /\ ret = no_ret

no_submit ==
    [ fault |-> 0, success |-> FALSE, msg |-> "none",
      allowed |-> "skipped", repeat |-> FALSE, rewrote |-> FALSE,
      theme_valid |-> FALSE, hour_valid |-> FALSE, outcome |-> "none" ]

\* Intake: an empty store, production or debug thresholds.
SysInit ==
    /\ doc = default_data
    /\ debug_mode \in BOOLEAN
    /\ max_concurrent_generations = MaxConcurrency
    /\ today = 0
    /\ clock = 0
    /\ next_uuid = [ u \in Users, d \in Days |-> 0 ]
    /\ runs = <<>>
    /\ last_submit = no_submit
    /\ accepted = {}
    /\ faults = 0
    /\ submits = 0

Init == SysInit /\ FileInit /\ RunnerInit

\* Batch: the store some users have submitted to today.  hours[u] is the hour
\* user u asked for, 0 for a user who has not submitted.  submit_request
\* touches the record of its own user only, so the document these calls leave
\* holds, for each user, the record a single call on an empty store leaves.
Submitted(hours) ==
    [ users |-> [ u \in { v \in Users : hours[v] /= 0 } |->
                    submit_request(default_data, 0, u, <<"a">>, hours[u], 0,
                                   <<u, 0, 1>>).doc.users[u] ],
      batch_runs |-> EmptyMap ]

BatchSysInit ==
    /\ debug_mode = FALSE
    /\ \E hours \in [Users -> {0, 2, 3}] : doc = Submitted(hours)
    /\ max_concurrent_generations \in 1..MaxConcurrency
    /\ today = 0
    /\ clock = 0
    /\ next_uuid = [ u \in Users, d \in Days |-> IF d = 0 THEN 1 ELSE 0 ]
    /\ runs = <<>>
    /\ last_submit = no_submit
    /\ accepted = {}
    /\ faults = 0
    /\ submits = 0

BatchInit == BatchSysInit /\ FileInit /\ RunnerInit

\* uuid.uuid4(): an id no earlier request has; the n-th id drawn for (u, day)
uuid4(u, day) == << u, day, next_uuid[u, day] + 1 >>

\* ------------------------------------------------------------------- actions
\* One call of submit_request (a UI session).
SubmitRequest(u, theme, hour, f) ==
    LET res == submit_request(doc, today, u, theme, hour, f, uuid4(u, today))
        rewrote == RequestOf(res.doc, u, today) /= RequestOf(doc, u, today)
    IN  /\ submits < MaxSubmits
        /\ (f = 0 \/ (validate_theme(theme) /\ validate_generation_hour(hour)))
        /\ (f = 0 \/ (res.raised /\ faults < MaxFaults))
        /\ submits' = submits + 1
        /\ doc' = res.doc
        /\ next_uuid' = IF rewrote THEN [next_uuid EXCEPT ![u, today] = @ + 1] ELSE next_uuid
        /\ last_submit' = [ fault |-> f, success |-> res.success,
                            msg |-> res.msg, allowed |-> res.allowed,
                            repeat |-> <<u, today>> \in accepted, rewrote |-> rewrote,
                            theme_valid |-> validate_theme(theme),
                            hour_valid |-> hour \in valid_generation_hours,
                            outcome |-> res.outcome ]
        /\ accepted' = IF res.success THEN accepted \cup {<<u, today>>} ELSE accepted
        /\ faults' = IF f = 0 THEN faults ELSE faults + 1
        /\ UNCHANGED << debug_mode, max_concurrent_generations, today, clock, runs >>
        /\ UNCHANGED filevars
        /\ UNCHANGED << runvars, cleanup_result, auxvars >>

\* a run_hourly_batch that takes every hour for a batch hour
valid_batch_hour_any(hour) == TRUE

\* run_hourly_batch: hour in self.available_hours
valid_batch_hour(hour) == hour \in available_hours

\* run_hourly_batch up to the fan-out: validation of the hour, the batch-start
\* record, the discovery of the pending requests; with no pending request the
\* call also records completion and returns.  dt: seconds since the previous
\* batch start (the batch id is start second + hour).  f: 1 the store raises
\* in _record_batch_start, 2 in the discovery, 3 in _record_batch_completion.
\* The run remembers in fault which of these calls raised.
RunHourlyBatch(hour, dt, f) ==
    LET id == << today, clock + dt, hour >>
        returned == { r \in 1..Len(runs) : runs[r].state = "returned" }
        d1 == IF f = 1 THEN doc ELSE record_batch_start(doc, id, hour)
        pending == get_pending_requests_by_hour(d1, today, hour, f = 2)
        zero == [NoResult EXCEPT !.success = TRUE]
        base == [ hour |-> hour, batch_id |-> id, date |-> today, state |-> "returned",
                  pending |-> <<>>, jobs |-> <<>>, result |-> NoResult, after |-> returned,
                  fault |-> f ]
    IN  /\ Len(runs) < MaxRuns
        /\ (runs = <<>> => dt = 0)
        /\ clock' = clock + dt
        /\ IF ~valid_batch_hour(hour)
           THEN /\ f = 0
                /\ doc' = doc
                /\ runs' = Append(runs, base)
           ELSE IF pending = <<>>
           THEN /\ doc' = IF f = 3 THEN d1 ELSE record_batch_completion(d1, id, zero)
                /\ runs' = Append(runs, [base EXCEPT !.result = zero])
           ELSE /\ f /= 3
                /\ doc' = d1
                /\ runs' = Append(runs,
                     [base EXCEPT !.state = "running", !.pending = pending,
                                  !.jobs = [ i \in 1..Len(pending) |->
                                             [ state |-> "waiting", gen |-> "none",
                                               success |-> FALSE ] ]])
        /\ (f = 0 \/ faults < MaxFaults)
        /\ faults' = IF f = 0 THEN faults ELSE faults + 1
        /\ UNCHANGED << debug_mode, max_concurrent_generations, today, next_uuid,
                        last_submit, accepted, submits >>
        /\ UNCHANGED filevars
        /\ UNCHANGED << runvars, cleanup_result, auxvars >>

\* _process_single_request from the semaphore to the start of the generation
\* call.  f = 1: get_user_profile raises; the job then marks the request
\* failed and ends without generating.
StartJob(r, i, f) ==
    LET run == runs[r]
        req == run.pending[i]
    IN  /\ run.state = "running"
        /\ semaphore_acquire(run, i)
        /\ (f = 0 \/ faults < MaxFaults)
        /\ IF f = 0
           THEN /\ runs' = [runs EXCEPT ![r].jobs[i].state = "generating"]
                /\ doc' = doc
           ELSE /\ runs' = [runs EXCEPT ![r].jobs[i].state = "done"]
                /\ doc' = mark_request_failed(doc, req.user_id, req.date, 0)
        /\ faults' = IF f = 0 THEN faults ELSE faults + 1
        /\ UNCHANGED << debug_mode, max_concurrent_generations, today, clock, next_uuid,
                        last_submit, accepted, submits >>
        /\ UNCHANGED filevars
        /\ UNCHANGED << runvars, cleanup_result, auxvars >>

\* a _process_single_request that stores what there is of the letter when the
\* generation has failed
process_single_request_partial(d, req, gen, f) ==
    IF gen = "ok"
    THEN LET sv == save_generated_letter(d, req.user_id, req.date, req.theme, f)
         IN  IF sv.raised
             THEN [ doc |-> mark_request_failed(d, req.user_id, req.date, 0),
                    success |-> FALSE ]
             ELSE LET d2 == mark_request_processed(sv.doc, req.user_id, req.date, "completed",
                                IF f = 3 THEN 1 ELSE IF f = 4 THEN 2 ELSE 0)
                      d3 == update_user_history(d2, req.user_id,
                                IF f = 5 THEN 1 ELSE IF f = 6 THEN 2 ELSE 0)
                  IN  [ doc |-> d3, success |-> TRUE ]
    ELSE [ doc |-> mark_request_failed(
                       save_generated_letter(d, req.user_id, req.date, req.theme, 0).doc,
                       req.user_id, req.date, f),
           success |-> FALSE ]

\* the rest of _process_single_request once generate_letter has returned
\* (gen = "ok"), wait_for has timed out ("timeout") or the pipeline has raised
\* ("error"); the last two branches differ in the text of the message only.
\* f names the store call that raises, in call order.
process_single_request(d, req, gen, f) ==
    IF gen = "ok"
    THEN LET sv == save_generated_letter(d, req.user_id, req.date, req.theme, f)
         IN  IF sv.raised
             THEN [ doc |-> mark_request_failed(d, req.user_id, req.date, 0),
                    success |-> FALSE ]
             ELSE LET d2 == mark_request_processed(sv.doc, req.user_id, req.date, "completed",
                                IF f = 3 THEN 1 ELSE IF f = 4 THEN 2 ELSE 0)
                      d3 == update_user_history(d2, req.user_id,
                                IF f = 5 THEN 1 ELSE IF f = 6 THEN 2 ELSE 0)
                  IN  [ doc |-> d3, success |-> TRUE ]
    ELSE [ doc |-> mark_request_failed(d, req.user_id, req.date, f), success |-> FALSE ]

FinishJob(r, i, gen, f) ==
    LET run == runs[r]
        res == process_single_request(doc, run.pending[i], gen, f)
    IN  /\ run.state = "running"
        /\ run.jobs[i].state = "generating"
        /\ f \in (IF gen = "ok" THEN 0..6 ELSE 0..2)
        /\ (f = 0 \/ faults < MaxFaults)
        /\ doc' = res.doc
        /\ runs' = [runs EXCEPT ![r].jobs[i] =
                        [ state |-> "done", gen |-> IF gen = "ok" THEN "ok" ELSE "failed",
                          success |-> res.success ]]
        /\ faults' = IF f = 0 THEN faults ELSE faults + 1
        /\ UNCHANGED << debug_mode, max_concurrent_generations, today, clock, next_uuid,
                        last_submit, accepted, submits >>
        /\ UNCHANGED filevars
        /\ UNCHANGED << runvars, cleanup_result, auxvars >>

\* asyncio.gather has all results: aggregation, _record_batch_completion
\* (f = 1: the store raises there), return of run_hourly_batch
FinishBatch(r, f) ==
    LET run == runs[r]
        result == Aggregate(run.pending, run.jobs, 1)
    IN  /\ run.state = "running"
        /\ \A i \in 1..Len(run.jobs) : run.jobs[i].state = "done"
        /\ (f = 0 \/ faults < MaxFaults)
        /\ doc' = IF f = 1 THEN doc ELSE record_batch_completion(doc, run.batch_id, result)
        /\ runs' = [runs EXCEPT ![r].state = "returned", ![r].result = result,
                                ![r].fault = IF f = 1 THEN 3 ELSE @]
        /\ faults' = IF f = 0 THEN faults ELSE faults + 1
        /\ UNCHANGED << debug_mode, max_concurrent_generations, today, clock, next_uuid,
                        last_submit, accepted, submits >>
        /\ UNCHANGED filevars
        /\ UNCHANGED << runvars, cleanup_result, auxvars >>

\* midnight: datetime.now() moves to the next calendar day
Midnight ==
    /\ today < MaxDay
    /\ today' = today + 1
    /\ UNCHANGED << doc, debug_mode, max_concurrent_generations, clock, next_uuid, runs,
                    last_submit, accepted, faults, submits >>
    /\ UNCHANGED filevars
    /\ UNCHANGED << runvars, cleanup_result, auxvars >>

Next ==
    \/ \E u \in Users, theme \in ThemeInputs, hour \in HourInputs, f \in 0..7 :
          SubmitRequest(u, theme, hour, f)
    \/ Midnight

Spec == Init /\ [][Next]_vars

BatchNext ==
    \/ \E hour \in BatchHourInputs, dt \in {0, 1}, f \in 0..3 : RunHourlyBatch(hour, dt, f)
    \/ \E r \in 1..Len(runs) : \E i \in 1..Len(runs[r].jobs), f \in {0, 1} : StartJob(r, i, f)
    \/ \E r \in 1..Len(runs) : \E i \in 1..Len(runs[r].jobs),
          gen \in {"ok", "timeout", "error"}, f \in 0..6 : FinishJob(r, i, gen, f)
    \/ \E r \in 1..Len(runs), f \in {0, 1} : FinishBatch(r, f)

BatchSpec == BatchInit /\ [][BatchNext]_vars

\* One batch on its own, with the progress the runtime gives: the event loop
\* runs every task that is ready, and a generation call returns, raises or is
\* cut off by wait_for after generation_timeout seconds.
StartJobs == \E r \in 1..Len(runs) : \E i \in 1..Len(runs[r].jobs), f \in {0, 1} : StartJob(r, i, f)

FinishJobs ==
    \E r \in 1..Len(runs) : \E i \in 1..Len(runs[r].jobs),
       gen \in {"ok", "timeout", "error"}, f \in 0..6 : FinishJob(r, i, gen, f)

FinishBatches == \E r \in 1..Len(runs), f \in {0, 1} : FinishBatch(r, f)

OneBatchNext ==
    \/ \E hour \in BatchHourInputs, f \in 0..3 : runs = <<>> /\ RunHourlyBatch(hour, 0, f)
    \/ StartJobs
    \/ FinishJobs
    \/ FinishBatches

OneBatchSpec ==
    /\ BatchInit
    /\ [][OneBatchNext]_vars
    /\ WF_vars(StartJobs)
    /\ WF_vars(FinishJobs)
    /\ WF_vars(FinishBatches)

\* ------------------------------------------------- actions of the document file
\* The steps of one storage call.  Calls do not overlap here (one caller).
StoreSysUnchanged ==
    /\ UNCHANGED << doc, debug_mode, max_concurrent_generations, clock, next_uuid,
                    runs, last_submit, accepted, submits >>
    /\ UNCHANGED << runvars, cleanup_result, auxvars >>

new_call(op, plan) ==
    [ op |-> op, phase |-> plan.phase, data |-> plan.data, before |-> primary,
      pre |-> primary, backups |-> backups, failures |-> 0,
      prev |-> IF ret.status = "crashed"
               THEN [ status |-> ret.status, stage |-> ret.stage, pre |-> ret.pre,
                      post |-> ret.data, primary |-> ret.primary ]
               ELSE no_prev ]

\* save_data(d): the lock is taken and _save_data_unsafe begins
SaveData(d) ==
    /\ pc = "idle"
    /\ pc' = "save"
    /\ call' = new_call("save", [ phase |-> "data", data |-> d ])
    /\ ret' = no_ret
    /\ UNCHANGED << primary, temp, backups, default_mem, today, faults >>
    /\ StoreSysUnchanged

\* load_data(): returns at once when the primary file parses; otherwise a
\* _save_data_unsafe of the default or of the restored document begins
LoadData ==
    /\ pc = "idle"
    /\ \E plan \in load_data(primary, backups, default_mem) :
          IF plan.write
          THEN /\ pc' = "save"
               /\ call' = new_call("load", plan)
               /\ ret' = no_ret
          ELSE /\ pc' = "idle"
               /\ call' = idle_call
               /\ ret' = Return("ok", "read", plan.data, new_call("load", plan), primary, temp)
    /\ UNCHANGED << primary, temp, backups, default_mem, today, faults >>
    /\ StoreSysUnchanged

\* backup_data() up to its first write of the primary file: the copy
\* (shutil.copy2 keeps the modification time of the primary), then load_data
\* and the start of the save that sets system.last_backup.  A backup is
\* told from the others by the modification time it carries.
BackupData ==
    /\ pc = "idle"
    /\ primary.mtime < MaxStamp
    /\ IF primary.kind = "absent"
       THEN /\ ret' = Return("ok", "none", no_doc, new_call("backup", default_plan(no_doc)),
                             primary, temp)
            /\ UNCHANGED << pc, call, backups >>
       ELSE LET bs == backups \cup {primary}
            IN  /\ backups' = bs
                /\ pc' = "save"
                /\ ret' = no_ret
                /\ \E plan \in load_data(primary, bs, default_mem) :
                      call' = [ new_call("backup",
                                  IF plan.write THEN plan
                                  ELSE [ phase |-> "last_backup",
                                         data |-> [plan.data EXCEPT !.last_backup = TRUE] ])
                                EXCEPT !.backups = bs ]
    /\ UNCHANGED << primary, temp, default_mem, today, faults >>
    /\ StoreSysUnchanged

\* open(temp_path, 'w') and the first bytes of json.dump
WriteTemp ==
    LET files == write_temp([ primary |-> primary, temp |-> temp ],
                            truncated_file(now(backups)))
    IN  /\ pc = "save"
        /\ pc' = "tmp_partial"
        /\ primary' = files.primary
        /\ temp' = files.temp
        /\ UNCHANGED << backups, default_mem, call, ret, today, faults >>
        /\ StoreSysUnchanged

\* json.dump completes and the file is closed
CloseTemp ==
    LET files == write_temp([ primary |-> primary, temp |-> temp ],
                            json_file(validate_and_repair_data(call.data), now(backups)))
    IN  /\ pc = "tmp_partial"
        /\ pc' = "tmp_written"
        /\ primary' = files.primary
        /\ temp' = files.temp
        /\ UNCHANGED << backups, default_mem, call, ret, today, faults >>
        /\ StoreSysUnchanged

\* shutil.move(temp_path, file_path), a rename inside one directory, and what
\* the call does once _save_data_unsafe has returned
MoveTemp ==
    LET saved == validate_and_repair_data(call.data)
    IN  /\ pc = "tmp_written"
        /\ primary' = temp
        /\ temp' = absent_file
        /\ IF call.op = "backup" /\ call.phase \in {"default", "restore"}
           THEN \* load_data has returned to backup_data; a default document it
                \* returned shares its system dict with self.default_data
                /\ pc' = "save"
                /\ call' = [call EXCEPT !.phase = "last_backup",
                                        !.data = [saved EXCEPT !.last_backup = TRUE],
                                        !.pre = temp]
                /\ default_mem' = IF call.phase = "default"
                                  THEN [default_mem EXCEPT !.last_backup = TRUE]
                                  ELSE default_mem
                /\ UNCHANGED << backups, ret >>
           ELSE /\ pc' = "idle"
                /\ call' = idle_call
                /\ backups' = IF call.op = "backup"
                              THEN cleanup_old_backups(backups) ELSE backups
                /\ ret' = Return("ok", "moved", saved, call, temp, absent_file)
                /\ default_mem' = default_mem
        /\ UNCHANGED << today, faults >>
        /\ StoreSysUnchanged

\* an exception inside _save_data_unsafe (validation, open, json.dump or
\* shutil.move raises): the .tmp file is removed and StorageError raised.
\* _restore_from_backup catches it and saves the default document instead.
SaveFails ==
    LET failed == [call EXCEPT !.failures = @ + 1]
    IN  /\ pc \in SaveStages
        /\ temp' = cleanup_temp(temp)
        /\ IF call.phase = "restore"
           THEN /\ pc' = "save"
                /\ call' = [failed EXCEPT !.phase = "default", !.data = default_mem]
                /\ ret' = ret
           ELSE /\ pc' = "idle"
                /\ call' = idle_call
                /\ ret' = Return("StorageError", pc, no_doc, failed, primary, temp')
        /\ UNCHANGED << primary, backups, default_mem, today, faults >>
        /\ StoreSysUnchanged

\* the process dies inside a storage call and is started again
Crash ==
    /\ pc \in SaveStages
    /\ pc' = "idle"
    /\ call' = idle_call
    /\ default_mem' = default_file_data
    /\ ret' = Return("crashed", pc, validate_and_repair_data(call.data), call, primary, temp)
    /\ UNCHANGED << primary, temp, backups, today, faults >>
    /\ StoreSysUnchanged

\* the primary file is damaged from outside the store (truncated)
CorruptPrimary ==
    /\ pc = "idle"
    /\ primary.kind = "valid"
    /\ primary' = truncated_file(now(backups))
    /\ ret' = no_ret
    /\ UNCHANGED << temp, backups, default_mem, pc, call, today, faults >>
    /\ StoreSysUnchanged

\* more than the retention window passes: the primary file and the backups
\* there are become old (the age of the .tmp file is never looked at)
Week ==
    LET aged(file) == IF file.kind = "absent" THEN file ELSE [file EXCEPT !.old = TRUE]
    IN  /\ pc = "idle"
        /\ primary' = aged(primary)
        /\ backups' = { aged(b) : b \in backups }
        /\ ret' = no_ret
        /\ UNCHANGED << temp, default_mem, pc, call, today, faults >>
        /\ StoreSysUnchanged

\* the store as construction finds it: no file, an empty file, or the
\* document an earlier version left
StoreInit ==
    /\ SysInit
    /\ RunnerInit
    /\ primary \in { absent_file, empty_file, json_file(legacy_doc, 0) }
    /\ temp = absent_file
    /\ backups = {}
    /\ default_mem = default_file_data
    /\ pc = "idle"
    /\ call = idle_call
    /\ ret = no_ret

StoreNext ==
    \/ \E d \in SaveInputs : SaveData(d)
    \/ LoadData
    \/ BackupData
    \/ WriteTemp
    \/ CloseTemp
    \/ MoveTemp
    \/ SaveFails
    \/ Crash
    \/ CorruptPrimary
    \/ Week

StoreSpec == StoreInit /\ [][StoreNext]_vars

\* ------------------------------------------- actions of the background processor
RunnerRestUnchanged == UNCHANGED << sysvars, filevars, cleanup_result, auxvars >>

\* a handler that lets the exception of a callback out of the loop
after_callback_uncaught(cb) == IF cb = "raises" THEN "exited" ELSE "sleep"

\* on_batch_complete / on_cleanup_complete are called inside try/except: an
\* exception of the callback is logged and the iteration goes on to its sleep
after_callback(cb) == "sleep"

\* start_background_processing (the second definition of the class, which is
\* the one in effect).  main: the call is made on the main thread;
\* signal.signal raises ValueError on any other thread, and the except
\* branch then resets is_running although the thread has been started.
StartBackgroundProcessing(main) ==
    /\ ~joining
    /\ IF is_running
       THEN /\ last_call' = [ op |-> "start", was_running |-> TRUE, returned |-> FALSE,
                              running_after |-> is_running, started |-> FALSE ]
            /\ UNCHANGED << is_running, stop_event, background_thread, loops >>
       ELSE /\ Len(loops) < MaxThreads
            /\ stop_event' = FALSE
            /\ loops' = Append(loops, sleeping)
            /\ background_thread' = Len(loops) + 1
            /\ is_running' = main
            /\ last_call' = [ op |-> "start", was_running |-> FALSE, returned |-> main,
                              running_after |-> main, started |-> TRUE ]
    /\ UNCHANGED << hour_now, last_execution_times, last_cleanup_date, forced, joining,
                    invoked, polled >>
    /\ RunnerRestUnchanged

\* stop_background_processing up to the join: a stopped processor returns
\* true at once; otherwise the event is set and the caller joins the thread
StopBackgroundProcessing ==
    /\ ~joining
    /\ IF ~is_running
       THEN /\ last_call' = [ op |-> "stop", was_running |-> FALSE, returned |-> TRUE,
                              running_after |-> FALSE, started |-> FALSE ]
            /\ UNCHANGED << stop_event, joining, is_running >>
       ELSE /\ stop_event' = TRUE
            /\ IF background_thread \in Alive(loops)
               THEN /\ joining' = TRUE
                    /\ last_call' = no_call
                    /\ UNCHANGED is_running
               ELSE /\ joining' = FALSE
                    /\ is_running' = FALSE
                    /\ last_call' = [ op |-> "stop", was_running |-> TRUE, returned |-> TRUE,
                                      running_after |-> FALSE, started |-> FALSE ]
    /\ UNCHANGED << hour_now, background_thread, loops, last_execution_times,
                    last_cleanup_date, forced, invoked, polled >>
    /\ RunnerRestUnchanged

\* join(timeout=10) ends: the thread has exited, or it is still inside an
\* await when the ten seconds are over (is_running is then left as it was)
JoinEnds ==
    /\ joining
    /\ joining' = FALSE
    /\ IF background_thread \notin Alive(loops)
       THEN /\ is_running' = FALSE
            /\ last_call' = [ op |-> "stop", was_running |-> TRUE, returned |-> TRUE,
                              running_after |-> FALSE, started |-> FALSE ]
       ELSE /\ loops[background_thread].pc \in {"batch", "cleanup"}
            /\ is_running' = is_running
            /\ last_call' = [ op |-> "stop", was_running |-> TRUE, returned |-> FALSE,
                              running_after |-> is_running, started |-> FALSE ]
    /\ UNCHANGED << hour_now, stop_event, background_thread, loops, last_execution_times,
                    last_cleanup_date, forced, invoked, polled >>
    /\ RunnerRestUnchanged

\* one pass of _background_loop from the end of a sleep to the next
\* suspension: the stop check, datetime.now(), _check_and_run_batch and
\* _check_and_run_cleanup up to their await
Poll(t) ==
    /\ t \in 1..Len(loops)
    /\ loops[t].pc = "sleep"
    /\ IF stop_event
       THEN /\ loops' = [loops EXCEPT ![t].pc = "exited"]
            /\ UNCHANGED << invoked, polled >>
       ELSE IF hour_now \in target_hours
       THEN /\ polled' = polled \cup { << hour_now, today >> }
            /\ IF last_execution_times[hour_now] = today
               THEN UNCHANGED << loops, invoked >>
               ELSE /\ loops' = [loops EXCEPT ![t] = [ pc |-> "batch", hour |-> hour_now,
                                                       date |-> today,
                                                       raised |-> loops[t].raised ]]
                    /\ invoked' = [invoked EXCEPT ![hour_now, today] = @ + 1]
       ELSE IF hour_now = cleanup_hour /\ last_cleanup_date /= today
       THEN /\ loops' = [loops EXCEPT ![t] = [ pc |-> "cleanup", hour |-> hour_now,
                                               date |-> today,
                                               raised |-> loops[t].raised ]]
            /\ UNCHANGED << invoked, polled >>
       ELSE UNCHANGED << loops, invoked, polled >>
    /\ UNCHANGED << hour_now, is_running, stop_event, background_thread,
                    last_execution_times, last_cleanup_date, forced, joining, last_call >>
    /\ RunnerRestUnchanged

\* run_hourly_batch returns to _check_and_run_batch: the date of the poll is
\* recorded, the callback is called; the iteration then sleeps
BatchReturns(t, cb) ==
    /\ t \in 1..Len(loops)
    /\ loops[t].pc = "batch"
    /\ last_execution_times' = [last_execution_times EXCEPT ![loops[t].hour] = loops[t].date]
    /\ loops' = [loops EXCEPT ![t] = [sleeping EXCEPT !.pc = after_callback(cb),
                                                      !.raised = (cb = "raises")]]
    /\ UNCHANGED << hour_now, is_running, stop_event, background_thread, last_cleanup_date,
                    forced, joining, last_call, invoked, polled >>
    /\ RunnerRestUnchanged

\* cleanup_old_data returns to _check_and_run_cleanup
CleanupReturns(t, cb) ==
    /\ t \in 1..Len(loops)
    /\ loops[t].pc = "cleanup"
    /\ last_cleanup_date' = loops[t].date
    /\ loops' = [loops EXCEPT ![t] = [sleeping EXCEPT !.pc = after_callback(cb),
                                                      !.raised = (cb = "raises")]]
    /\ UNCHANGED << hour_now, is_running, stop_event, background_thread,
                    last_execution_times, forced, joining, last_call, invoked, polled >>
    /\ RunnerRestUnchanged

\* force_run_batch(hour) up to its await of run_hourly_batch
ForceRunBatch(hour) ==
    /\ forced.state = "idle"
    /\ hour \in target_hours
    /\ forced' = [ state |-> "running", hour |-> hour ]
    /\ UNCHANGED << hour_now, is_running, stop_event, background_thread, loops,
                    last_execution_times, last_cleanup_date, joining, last_call,
                    invoked, polled >>
    /\ RunnerRestUnchanged

\* run_hourly_batch returns to force_run_batch: the date of that moment is
\* recorded for the hour
ForceReturns ==
    /\ forced.state = "running"
    /\ last_execution_times' = [last_execution_times EXCEPT ![forced.hour] = today]
    /\ forced' = no_force
    /\ UNCHANGED << hour_now, is_running, stop_event, background_thread, loops,
                    last_cleanup_date, joining, last_call, invoked, polled >>
    /\ RunnerRestUnchanged

\* the wall clock reaches the next hour
HourPasses ==
    /\ IF hour_now + 1 \in HoursOfDay
       THEN hour_now' = hour_now + 1 /\ today' = today
       ELSE today < MaxDay /\ hour_now' = 0 /\ today' = today + 1
    /\ UNCHANGED << is_running, stop_event, background_thread, loops, last_execution_times,
                    last_cleanup_date, forced, joining, last_call, invoked, polled >>
    /\ UNCHANGED << doc, debug_mode, max_concurrent_generations, clock, next_uuid,
                    runs, last_submit, accepted, faults, submits, cleanup_result, auxvars >>
    /\ UNCHANGED filevars

Polls == \E t \in Threads : Poll(t)

BatchesReturn == \E t \in Threads, cb \in {"ok", "raises"} : BatchReturns(t, cb)

CleanupsReturn == \E t \in Threads, cb \in {"ok", "raises"} : CleanupReturns(t, cb)

RunnerNext ==
    \/ \E main \in BOOLEAN : StartBackgroundProcessing(main)
    \/ StopBackgroundProcessing
    \/ JoinEnds
    \/ Polls
    \/ BatchesReturn
    \/ CleanupsReturn
    \/ \E hour \in target_hours \cap HoursOfDay : ForceRunBatch(hour)
    \/ ForceReturns
    \/ HourPasses

RunnerSpecInit == Init /\ debug_mode = FALSE

RunnerSpec == RunnerSpecInit /\ [][RunnerNext]_vars

\* a processor that is only ever started from the main thread
MainThreadNext ==
    \/ StartBackgroundProcessing(TRUE)
    \/ StopBackgroundProcessing
    \/ JoinEnds
    \/ Polls
    \/ BatchesReturn
    \/ CleanupsReturn
    \/ \E hour \in target_hours \cap HoursOfDay : ForceRunBatch(hour)
    \/ ForceReturns
    \/ HourPasses

MainThreadSpec == RunnerSpecInit /\ [][MainThreadNext]_vars

\* the progress the runtime gives: a sleep ends, an await returns, a join
\* ends
RunnerFairSpec ==
    /\ RunnerSpec
    /\ WF_vars(Polls)
    /\ WF_vars(BatchesReturn)
    /\ WF_vars(CleanupsReturn)
    /\ WF_vars(ForceReturns)
    /\ WF_vars(JoinEnds)

\* ------------------------------------------------ actions of the retention cleanup
CleanupRestUnchanged ==
    /\ UNCHANGED << debug_mode, max_concurrent_generations, clock, next_uuid, runs,
                    last_submit, accepted, submits >>
    /\ UNCHANGED filevars
    /\ UNCHANGED << runvars, auxvars >>

seeded_days(d, u, kind) ==
    IF u \notin DOMAIN d.users THEN {}
    ELSE IF kind = "requests" THEN DOMAIN d.users[u].requests
    ELSE IF kind = "letters" THEN DOMAIN d.users[u].letters
    ELSE IF kind = "daily_requests" THEN DOMAIN d.users[u].daily_requests
    ELSE DOMAIN d.users[u].api_calls

\* a dated entry of today is written into the record of user u
SeedEntry(u, kind) ==
    /\ today \notin seeded_days(doc, u, kind)
    /\ doc' = seed(doc, u, today, kind)
    /\ cleanup_result' = no_cleanup
    /\ UNCHANGED << today, faults >>
    /\ CleanupRestUnchanged

\* BatchScheduler.cleanup_old_data(days)
CleanupOldData(days, f) ==
    LET res == cleanup_old_data(doc, today, days, f)
    IN  /\ (f = 0 \/ faults < MaxFaults)
        /\ doc' = res.doc
        /\ faults' = IF f = 0 THEN faults ELSE faults + 1
        /\ cleanup_result' = [ called |-> TRUE, days |-> days, fault |-> f,
                               users |-> DOMAIN doc.users, deleted_letters |-> res.deleted ]
        /\ UNCHANGED today
        /\ CleanupRestUnchanged

\* midnight, for the cleanup: the entries written so far become a day older
NextDay ==
    /\ today < MaxDay
    /\ today' = today + 1
    /\ cleanup_result' = no_cleanup
    /\ UNCHANGED << doc, faults >>
    /\ CleanupRestUnchanged

CleanupNext ==
    \/ \E u \in Users, kind \in SeedKinds : SeedEntry(u, kind)
    \/ \E days \in RetentionInputs, f \in 0..2 : CleanupOldData(days, f)
    \/ NextDay

CleanupSpec == RunnerSpecInit /\ [][CleanupNext]_vars

\* --------------------------------------------- actions of update_user_data
UpdateRestUnchanged ==
    /\ UNCHANGED << debug_mode, max_concurrent_generations, today, clock, next_uuid, runs,
                    last_submit, accepted, faults, submits >>
    /\ UNCHANGED filevars
    /\ UNCHANGED << runvars, cleanup_result, limit_check, pipelines >>

\* the record _save_generated_letter hands to update_user_data
letter_saved(user, date) ==
    [user EXCEPT !.letters = Put(@, date, [theme |-> <<"a">>, status |-> "completed"]),
                 !.total_letters = @ + 1,
                 !.last_request = date]

\* caller c, in a job of user u, is inside update_user_data and has loaded
\* the document
UpdateLoads(c, u) ==
    /\ tasks.of[c].pc = "idle"
    /\ u \in DOMAIN doc.users
    /\ doc.users[u].total_letters < MaxRuns
    /\ tasks' = [tasks EXCEPT !.of[c] = [ pc |-> "loaded", user |-> u, data |-> doc,
                                          rec |-> letter_saved(doc.users[u], today) ]]
    /\ doc' = doc
    /\ UpdateRestUnchanged

\* caller c saves and update_user_data returns
UpdateSaves(c) ==
    /\ tasks.of[c].pc = "loaded"
    /\ doc' = save_loaded(tasks.of[c], doc)
    /\ tasks' = [ of |-> [tasks.of EXCEPT ![c] = idle_task],
                  written |-> Put(tasks.written, tasks.of[c].user, tasks.of[c].rec) ]
    /\ UpdateRestUnchanged

UpdateNext ==
    \/ \E c \in Callers, u \in Users : UpdateLoads(c, u)
    \/ \E c \in Callers : UpdateSaves(c)

\* every user has a pending request, so that every user has a record to update
UpdateInit ==
    /\ BatchInit
    /\ max_concurrent_generations = 1
    /\ doc = Submitted([ u \in Users |-> 2 ])

UpdateSpec == UpdateInit /\ [][UpdateNext]_vars

\* ------------------------------------------------ actions of the limit checks
LimitRestUnchanged ==
    /\ UNCHANGED << debug_mode, max_concurrent_generations, today, clock, next_uuid, runs,
                    last_submit, accepted, submits >>
    /\ UNCHANGED filevars
    /\ UNCHANGED << runvars, cleanup_result, tasks, pipelines >>

\* is_request_allowed(u); f = 1: the store raises in the daily check, 2: in
\* the API check
IsRequestAllowed(u, f) ==
    LET res == is_request_allowed(doc, u, today, f)
    IN  /\ (f = 0 \/ (res.raised /\ faults < MaxFaults))
        /\ doc' = res.doc
        /\ faults' = IF f = 0 THEN faults ELSE faults + 1
        /\ limit_check' = [ op |-> "is_request_allowed", user |-> u, fault |-> f,
                            allowed |-> res.allowed ]
        /\ LimitRestUnchanged

\* check_daily_request_limit(u)
CheckDailyRequestLimit(u, raises) ==
    LET res == check_daily_request_limit(doc, u, today, raises)
    IN  /\ (~raises \/ faults < MaxFaults)
        /\ doc' = res.doc
        /\ faults' = IF raises THEN faults + 1 ELSE faults
        /\ limit_check' = [ op |-> "check_daily_request_limit", user |-> u,
                            fault |-> IF raises THEN 1 ELSE 0, allowed |-> res.allowed ]
        /\ LimitRestUnchanged

\* a store in which one user has counters, on a day with or without a past
LimitInit ==
    /\ debug_mode \in BOOLEAN
    /\ max_concurrent_generations = MaxConcurrency
    /\ today = 0
    /\ clock = 0
    /\ next_uuid = [ u \in Users, d \in Days |-> 0 ]
    /\ runs = <<>>
    /\ last_submit = no_submit
    /\ accepted = {}
    /\ faults = 0
    /\ submits = 0
    /\ FileInit
    /\ RunnerInit
    /\ \E u \in Users, daily \in CountInputs, api \in CountInputs, past \in BOOLEAN :
          doc = [default_data EXCEPT !.users =
                    Put(@, u, [default_user EXCEPT
                                  !.daily_requests = counter(0, daily, past),
                                  !.api_calls = counter(0, api, past)])]

LimitNext ==
    \/ \E u \in Users, f \in 0..2 : IsRequestAllowed(u, f)
    \/ \E u \in Users, raises \in BOOLEAN : CheckDailyRequestLimit(u, raises)

LimitSpec == LimitInit /\ [][LimitNext]_vars

\* ------------------------------------------------ actions of the generation
PipelineRestUnchanged ==
    /\ UNCHANGED sysvars
    /\ UNCHANGED filevars
    /\ UNCHANGED << runvars, cleanup_result, tasks, limit_check >>

\* generate_letter is called for job j: generate_structure begins
GenerateLetter(j) ==
    /\ pipelines[j].stage = "idle"
    /\ pipelines' = [pipelines EXCEPT ![j].stage = "structure"]
    /\ PipelineRestUnchanged

\* an API call of job j returns or raises
ApiCall(j, ok) ==
    /\ pipelines[j].stage \in Stages
    /\ pipelines[j].at = "call"
    /\ pipelines' = [pipelines EXCEPT ![j] = api_call(@, ok)]
    /\ PipelineRestUnchanged

\* asyncio.sleep returns: the next iteration of the retry loop
BackoffEnds(j) ==
    /\ pipelines[j].stage \in Stages
    /\ pipelines[j].at = "sleep"
    /\ pipelines' = [pipelines EXCEPT ![j].attempt = @ + 1, ![j].at = "call"]
    /\ PipelineRestUnchanged

\* asyncio.wait_for reaches generation_timeout and cancels the call, inside
\* an API call or a sleep (CancelledError is no Exception: no retry)
GenerationTimeout(j) ==
    /\ pipelines[j].stage \in Stages
    /\ pipelines' = [pipelines EXCEPT ![j].ended_in = pipelines[j].stage,
                                      ![j].stage = "cancelled"]
    /\ PipelineRestUnchanged

PipelineNext ==
    \/ \E j \in Jobs : GenerateLetter(j)
    \/ \E j \in Jobs, ok \in BOOLEAN : ApiCall(j, ok)
    \/ \E j \in Jobs : BackoffEnds(j)
    \/ \E j \in Jobs : GenerationTimeout(j)

PipelineSpec == RunnerSpecInit /\ [][PipelineNext]_vars

\* ==================================================================== intake
\* C1: once a submit_request of a user has succeeded on a day, every later
\* submit_request of that user on that day returns success = false and leaves
\* the user's Request of that day unchanged (request_id, theme,
\* generation_hour, status).
C1_OneRequestPerDay ==
    last_submit.repeat => (~last_submit.success /\ ~last_submit.rewrote)

\* C7: if the store raises during either limit check, is_request_allowed
\* answers "not allowed"; submit_request then rejects and writes no Request.
C7_LimitChecksFailClosed ==
    last_submit.fault \in {1, 2} =>
        /\ last_submit.allowed = "denied"
        /\ ~last_submit.success
        /\ ~last_submit.rewrote

\* the store raised in the API-call check, after the daily check had passed
C7_Witness ==
    /\ last_submit.fault = 2
    /\ last_submit.msg = "api_limit"
    /\ ~last_submit.success

\* ===================================================================== batch
\* the jobs of all runs that have taken up the request with this id
JobsOf(id) ==
    { << r, i >> \in (1..Len(runs)) \X (1..NumUsers) :
        /\ i <= Len(runs[r].jobs)
        /\ runs[r].pending[i].request_id = id
        /\ runs[r].jobs[i].state /= "waiting" }

RequestIds ==
    { runs[r].pending[i].request_id :
        << r, i >> \in { x \in (1..Len(runs)) \X (1..NumUsers) : x[2] <= Len(runs[x[1]].jobs) } }

StatusOf(d, req) == d.users[req.user_id].requests[req.date].status

\* C2: when run_hourly_batch(h) is called again after a run for the same hour
\* and day has returned, every request the first run handled has had its
\* status flipped to completed or failed, and the second run discovers none
\* of them.
C2_SecondRunFindsNothing ==
    /\ \A r \in 1..Len(runs) : \A i \in 1..Len(runs[r].pending) :
          runs[r].state = "returned" =>
              StatusOf(doc, runs[r].pending[i]) \in {"completed", "failed"}
    /\ \A r2 \in 1..Len(runs) : \A r1 \in runs[r2].after :
          (runs[r1].hour = runs[r2].hour /\ runs[r1].date = runs[r2].date) =>
              \A i \in 1..Len(runs[r1].pending) : \A j \in 1..Len(runs[r2].pending) :
                  runs[r1].pending[i].request_id /= runs[r2].pending[j].request_id

\* C3: over its lifetime a Request is handed to at most one generation job,
\* however the invocations of run_hourly_batch interleave.
C3_AtMostOneJob == \A id \in RequestIds : Cardinality(JobsOf(id)) <= 1

\* C4: in a batch of N pending requests where the generation of exactly one
\* job fails and the other N-1 jobs succeed, the batch reports
\* success_count = N-1 and failed_count = 1 and the N-1 Letters are stored.
FailedGen(run) == { i \in 1..Len(run.jobs) : run.jobs[i].gen = "failed" }

OneJobFails(run) ==
    /\ run.state = "returned"
    /\ Cardinality(FailedGen(run)) = 1
    /\ \A i \in 1..Len(run.jobs) : i \notin FailedGen(run) => run.jobs[i].success

C4_FailureIsolated ==
    \A r \in 1..Len(runs) :
        OneJobFails(runs[r]) =>
            /\ runs[r].result.success_count = Len(runs[r].pending) - 1
            /\ runs[r].result.failed_count = 1
            /\ \A i \in 1..Len(runs[r].jobs) :
                  i \notin FailedGen(runs[r]) =>
                      runs[r].pending[i].date \in
                          DOMAIN doc.users[runs[r].pending[i].user_id].letters

\* a returned batch of two requests: one generation failed, the other succeeded
C4_Witness ==
    \E r \in 1..Len(runs) :
        /\ OneJobFails(runs[r])
        /\ Len(runs[r].pending) >= 2

\* C5: with max_concurrent_generations = C and more than C pending requests,
\* never more than C jobs of the batch are in flight, and every job is
\* eventually admitted.
JobWaiting(i) ==
    /\ Len(runs) >= 1
    /\ i <= Len(runs[1].jobs)
    /\ runs[1].jobs[i].state = "waiting"

JobAdmitted(i) ==
    /\ Len(runs) >= 1
    /\ i <= Len(runs[1].jobs)
    /\ runs[1].jobs[i].state \in {"generating", "done"}

C5_BoundedConcurrency ==
    /\ [](\A r \in 1..Len(runs) : InFlight(runs[r]) <= max_concurrent_generations)
    /\ \A i \in 1..NumUsers : (JobWaiting(i) ~> JobAdmitted(i))

\* every slot of the semaphore is taken and a job is waiting behind them
C5_Witness ==
    \E r \in 1..Len(runs) :
        /\ InFlight(runs[r]) = max_concurrent_generations
        /\ Len(runs[r].jobs) > max_concurrent_generations
        /\ \E i \in 1..Len(runs[r].jobs) : runs[r].jobs[i].state = "waiting"

\* C6: the status of a Request leaves pending exactly once, for completed or
\* failed, and never changes again.
C6_StatusOneWay ==
    [][ \A u \in DOMAIN doc.users : \A d \in DOMAIN doc.users[u].requests :
          LET before == doc.users[u].requests[d].status
              after == doc'.users[u].requests[d].status
          IN  /\ before \in {"completed", "failed"} => after = before
              /\ before = "pending" => after \in {"pending", "completed", "failed"} ]_vars

\* ============================================================= document file
\* C8: save writes the whole document to the .tmp file and renames it over
\* the primary file; a crash between the temp-file write and the rename
\* leaves the primary file holding the complete pre-save document, and a
\* later load() returns the pre-crash or the post-crash document, never a
\* mixture.
CrashedInSave(r) ==
    /\ r.status = "crashed"
    /\ r.stage \in {"tmp_partial", "tmp_written"}

LoadAfterCrash ==
    /\ ret.op = "load"
    /\ ret.status = "ok"
    /\ CrashedInSave(ret.prev)
    /\ ret.prev.pre.kind = "valid"
    /\ ret.before = ret.prev.primary

C8_AtomicSave ==
    /\ CrashedInSave(ret) => ret.primary = ret.pre
    /\ LoadAfterCrash =>
          ret.data \in { validate_and_repair_data(ret.prev.pre.doc), ret.prev.post }

\* a load after a crash that came once the new document was completely in
\* the .tmp file, the new document differing from the old one
C8_Witness ==
    /\ LoadAfterCrash
    /\ ret.prev.stage = "tmp_written"
    /\ ret.prev.post /= validate_and_repair_data(ret.prev.pre.doc)

\* C9: when save fails, the .tmp file is removed, StorageError is raised and
\* the primary file is byte for byte what it was before the call.
C9_FailedSaveKeepsPrimary ==
    ret.status = "StorageError" =>
        /\ ret.temp.kind = "absent"
        /\ ret.primary = ret.pre
        /\ ret.op = "save" => ret.primary = ret.before

\* save_data failed at the rename, over a primary file that held a document
C9_Witness ==
    /\ ret.status = "StorageError"
    /\ ret.op = "save"
    /\ ret.stage = "tmp_written"
    /\ ret.before.kind = "valid"

\* C10: if the primary file is malformed and at least one valid backup
\* exists, load() returns the content of the valid backup with the latest
\* modification time (after the repair pass), and the primary file then holds
\* that document.  Calls in which a write of the primary file failed are left
\* aside.
ValidBackups(bs) == { b \in bs : b.kind = "valid" }

C10_RestoresLatestBackup ==
    ( /\ ret.op = "load"
      /\ ret.status = "ok"
      /\ ret.failures = 0
      /\ ret.before.kind = "partial"
      /\ ValidBackups(ret.backups) /= {} )
    => \E b \in latest_backup(ValidBackups(ret.backups)) :
          /\ ret.data = validate_and_repair_data(b.doc)
          /\ ret.primary.kind = "valid"
          /\ ret.primary.doc = ret.data

\* ========================================================== background loop
\* C11: for every target hour h and day d at which the background loop polls
\* at least once, the loop invokes run_hourly_batch(h) exactly once for
\* (h, d): the first such poll triggers it and later polls do not.
C11_ExactlyOncePerHourAndDay ==
    \A h \in target_hours, d \in Days : << h, d >> \in polled => invoked[h, d] = 1

\* C12: at no point are two run_hourly_batch executions in progress at the
\* same time.
BatchesInProgress ==
    Cardinality(InBatch(loops)) + (IF forced.state = "running" THEN 1 ELSE 0)

C12_OneBatchAtATime == BatchesInProgress <= 1

\* C13: start on a running processor returns false and starts no loop; stop
\* on a stopped processor returns true; start on a stopped processor returns
\* true and leaves it running; stop on a running processor leaves it stopped;
\* there is never more than one loop.
C13_StartStopIdempotent ==
    /\ (last_call.op = "start" /\ last_call.was_running) =>
          (~last_call.returned /\ ~last_call.started)
    /\ (last_call.op = "stop" /\ ~last_call.was_running) => last_call.returned
    /\ (last_call.op = "start" /\ ~last_call.was_running) =>
          (last_call.returned /\ last_call.running_after)
    /\ (last_call.op = "stop" /\ last_call.was_running) => ~last_call.running_after
    /\ Cardinality(Alive(loops)) <= 1

C15_StopEventuallyExits ==
    \A t \in Threads :
        (stop_event /\ t \in Alive(loops)) ~> (t \in 1..Len(loops) /\ loops[t].pc = "exited")

\* ================================================================ batch runs
ValidRuns == { r \in 1..Len(runs) : runs[r].hour \in available_hours }

\* C16: every run_hourly_batch invocation with a valid hour has a batch_runs
\* entry of its own, which is running while the invocation is in progress and
\* completed or failed once it has returned.
C16_OneEntryPerRun ==
    /\ \A r \in ValidRuns :
          /\ runs[r].batch_id \in DOMAIN doc.batch_runs
          /\ doc.batch_runs[runs[r].batch_id].status \in
                (IF runs[r].state = "returned" THEN {"completed", "failed"} ELSE {"running"})
    /\ \A r1, r2 \in ValidRuns : r1 /= r2 => runs[r1].batch_id /= runs[r2].batch_id

\* C17: run_hourly_batch with an hour that is not a batch hour returns
\* success = false and leaves the store as it was: no batch_runs entry, no
\* request discovered or processed, no status changed.
C17_InvalidHourRejected ==
    [][ (Len(runs') = Len(runs) + 1 /\ runs'[Len(runs')].hour \notin available_hours) =>
          /\ doc' = doc
          /\ runs'[Len(runs')].state = "returned"
          /\ ~runs'[Len(runs')].result.success
          /\ runs'[Len(runs')].pending = <<>>
          /\ runs'[Len(runs')].jobs = <<>> ]_vars

\* run_hourly_batch with an invalid hour has returned, over a store that
\* holds a pending request
C17_Witness ==
    /\ \E r \in 1..Len(runs) : runs[r].hour \notin available_hours
    /\ \E u \in DOMAIN doc.users : \E d \in DOMAIN doc.users[u].requests :
          doc.users[u].requests[d].status = "pending"

\* C18: when the discovery of the pending requests raises, run_hourly_batch
\* returns success = false and the run is recorded as failed, not completed.
C18_DiscoveryFailureRecorded ==
    \A r \in ValidRuns :
        (runs[r].state = "returned" /\ runs[r].fault = 2) =>
            /\ ~runs[r].result.success
            /\ runs[r].batch_id \in DOMAIN doc.batch_runs
            /\ doc.batch_runs[runs[r].batch_id].status = "failed"

\* C20: a request submitted for hour h whose generation succeeds: when
\* run_hourly_batch(h) has returned (no store call having raised), the result
\* is success with processed_count = 1, the user's letters hold one entry, for
\* today, with status completed, the Request of today is completed,
\* profile.total_letters has gone from 0 to 1 and profile.last_request is
\* today.
OneRequestGenerated(run) ==
    /\ run.state = "returned"
    /\ Len(run.pending) = 1
    /\ run.jobs[1].gen = "ok"
    /\ faults = 0

DatedEntries(user) ==
    (DOMAIN user.requests) \cup (DOMAIN user.letters)
        \cup (DOMAIN user.daily_requests) \cup (DOMAIN user.api_calls)

\* C19: after cleanup_old_data with a retention window of 0 days (no store
\* call having raised), no user of the persisted document holds a dated
\* entry of a past day (request, daily_requests counter, api_calls counter,
\* letter), and every user record is still there.
C19_RetentionZeroPrunesAll ==
    (cleanup_result.called /\ cleanup_result.days = 0 /\ cleanup_result.fault = 0) =>
        /\ DOMAIN doc.users = cleanup_result.users
        /\ \A u \in DOMAIN doc.users : \A d \in DatedEntries(doc.users[u]) : ~(d < today)

\* ====================================================================== letters
UserBefore(u) == IF u \in DOMAIN doc.users THEN doc.users[u] ELSE default_user

\* the jobs of user u that end in this step with a generation that succeeded
EndsGenerated(u) ==
    { p \in { q \in (1..Len(runs)) \X Users : q[2] \in 1..Len(runs[q[1]].jobs) } :
        /\ runs[p[1]].jobs[p[2]].state = "generating"
        /\ runs'[p[1]].jobs[p[2]].state = "done"
        /\ runs'[p[1]].jobs[p[2]].gen = "ok"
        /\ runs[p[1]].pending[p[2]].user_id = u }

\* C21: the letters and total_letters of a user change only in a step in
\* which a job of that user ends whose generate call succeeded, and then only
\* the letter of the date of that job is written; a job whose generation
\* timed out or raised leaves both as they were.
C21_LetterOnlyAfterGeneration ==
    [][ \A u \in DOMAIN doc'.users :
          \/ /\ doc'.users[u].letters = UserBefore(u).letters
             /\ doc'.users[u].total_letters = UserBefore(u).total_letters
          \/ \E p \in EndsGenerated(u) :
                \A d \in DOMAIN doc'.users[u].letters :
                    d = runs[p[1]].pending[p[2]].date
                    \/ (d \in DOMAIN UserBefore(u).letters
                        /\ doc'.users[u].letters[d] = UserBefore(u).letters[d]) ]_vars

\* a job has ended after a failed generation and its user has no letter for
\* the date of the request
C21_Witness ==
    \E r \in 1..Len(runs) : \E i \in 1..Len(runs[r].jobs) :
        /\ runs[r].jobs[i].state = "done"
        /\ runs[r].jobs[i].gen = "failed"
        /\ runs[r].pending[i].date \notin DOMAIN doc.users[runs[r].pending[i].user_id].letters

\* ================================================================ lost update
\* C22: the save of an update_user_data call writes the document that call
\* loaded, with the record of its user replaced: whatever another caller has
\* saved since that load, also for another user, is not in it.  (The load and
\* the save are each one step: the lock serializes them.)
C22_SaveWritesLoadedDocument ==
    [][ \A c \in Callers :
          (tasks.of[c].pc = "loaded" /\ tasks'.of[c].pc = "idle") =>
              /\ doc'.users[tasks.of[c].user] = tasks.of[c].rec
              /\ \A v \in DOMAIN doc'.users \ {tasks.of[c].user} :
                    /\ v \in DOMAIN tasks.of[c].data.users
                    /\ doc'.users[v] = tasks.of[c].data.users[v] ]_vars

\* a lost update: both calls have returned, and the record of a user is not
\* the one the last update_user_data call for that user wrote
C22_Witness ==
    /\ \A c \in Callers : tasks.of[c].pc = "idle"
    /\ \E u \in DOMAIN tasks.written : doc.users[u] /= tasks.written[u]

\* ================================================================= intake, II
\* C23: a submit_request call whose theme does not pass validate_theme (empty,
\* blank, too long, a control character) or whose hour is not one of
\* valid_generation_hours
\* returns (false, message) and leaves the store as it was: no request, no
\* counter, nothing new for get_pending_requests_by_hour.
C23_RejectedSubmitLeavesStore ==
    [][ (submits' = submits + 1
         /\ \/ ~last_submit'.theme_valid
            \/ ~last_submit'.hour_valid) =>
            /\ doc' = doc
            /\ ~last_submit'.success
            /\ last_submit'.outcome = "returned"
            /\ last_submit'.msg \in {"theme", "hour"}
            /\ \A h \in valid_generation_hours :
                  get_pending_requests_by_hour(doc', today, h, FALSE)
                      = get_pending_requests_by_hour(doc, today, h, FALSE) ]_vars

\* a call with a theme that is too long, or one with a wrong hour, has been
\* rejected on a store that already holds a user
C23_Witness ==
    /\ submits > 0
    /\ doc.users /= EmptyMap
    /\ \/ (last_submit.msg = "theme" /\ ~last_submit.theme_valid)
       \/ (last_submit.msg = "hour" /\ ~last_submit.hour_valid)
    /\ ~last_submit.success

\* C24: every submit_request call returns a (success, message) pair, whatever
\* its input and whichever call to the store or the rate limiter raises
\* inside it.
C24_SubmitNeverRaises == submits > 0 => last_submit.outcome = "returned"

\* a call inside which get_user_data, update_user_data or record_request
\* raised has returned (false, message)
C24_Witness ==
    /\ last_submit.fault \in 4..7
    /\ last_submit.msg = "error"
    /\ ~last_submit.success
    /\ last_submit.outcome = "returned"

\* ============================================================ store failures
\* C25: when the store raises inside the recording of a batch run
\* (_record_batch_start, _record_batch_completion), run_hourly_batch, the
\* caller of the recording, observes the failure: the call does not return
\* success.
C25_RecordingFailureObserved ==
    \A r \in 1..Len(runs) :
        (runs[r].state = "returned" /\ runs[r].fault \in {1, 3}) => ~runs[r].result.success

\* ==================================================================== limits
CountToday(d, u, kind) ==
    IF u \notin DOMAIN d.users THEN 0
    ELSE IF kind = "daily_requests" THEN GetOr(d.users[u].daily_requests, today, 0)
    ELSE GetOr(d.users[u].api_calls, today, 0)

\* C26: with the store answering, is_request_allowed(u) is true exactly when
\* the request count of u for today is below max_daily_requests and the
\* API-call count of u for today is below max_api_calls_per_day, a missing
\* entry counting as 0; check_daily_request_limit(u) is true exactly when the
\* request count for today is below max_daily_requests.  (Neither call
\* changes a counter, so the counts are those the call saw.)
C26_AllowedIffBelowLimits ==
    /\ (limit_check.op = "is_request_allowed" /\ limit_check.fault = 0) =>
          (limit_check.allowed <=>
              /\ CountToday(doc, limit_check.user, "daily_requests") < max_daily_requests
              /\ CountToday(doc, limit_check.user, "api_calls") < max_api_calls_per_day)
    /\ (limit_check.op = "check_daily_request_limit" /\ limit_check.fault = 0) =>
          (limit_check.allowed <=>
              CountToday(doc, limit_check.user, "daily_requests") < max_daily_requests)

\* is_request_allowed has refused a user whose request count is below the
\* maximum and whose API-call count is at the maximum
C26_Witness ==
    /\ limit_check.op = "is_request_allowed"
    /\ limit_check.fault = 0
    /\ ~limit_check.allowed
    /\ CountToday(doc, limit_check.user, "daily_requests") < max_daily_requests
    /\ CountToday(doc, limit_check.user, "api_calls") = max_api_calls_per_day

\* ========================================================= document file, II
LoadReturned == ret.op = "load" /\ ret.status = "ok"

\* C27: the document load() returns has every key the repair pass supplies
\* (users and system, and profile, letters, requests and rate_limits in every
\* user record), whether it was read from the primary file, created as the
\* default document or recovered from a backup.
C27_LoadedDocumentIsRepaired == LoadReturned => ret.data.repaired

\* load() has recovered a document from a backup that lacked keys
C27_Witness ==
    /\ LoadReturned
    /\ ret.before.kind = "partial"
    /\ ret.stage = "moved"
    /\ \E b \in latest_backup(ret.backups) :
          b.kind = "valid" /\ ~b.doc.repaired /\ ret.data.body = b.doc.body

\* C28: load() on a primary file that is absent or empty, or malformed with
\* no backup there, returns the default document (no users, last_backup
\* null) and leaves it in the primary file, whatever was called on the store
\* before.
C28_DefaultDocumentOnMissingFile ==
    (/\ LoadReturned
     /\ \/ ret.before.kind \in {"absent", "empty"}
        \/ (ret.before.kind = "partial" /\ ret.backups = {})) =>
        /\ ret.data = default_file_data
        /\ ret.primary.kind = "valid"
        /\ ret.primary.doc = default_file_data

BackupReturned == ret.op = "backup" /\ ret.status = "ok" /\ ret.before.kind /= "absent"

\* C30: when backup() returns for a primary file that existed, the backup
\* directory holds a copy of that file as it was at the call (the snapshot
\* just made), system.last_backup is set, and every backup that was there
\* and is not older than the retention window is still there.
C30_BackupKeepsNewSnapshot ==
    BackupReturned =>
        /\ ret.before \in backups
        /\ ret.data.last_backup
        /\ \A b \in ret.backups : ~b.old => b \in backups

\* ================================================================ generation
\* a stage of a pipeline has ended with a successful call
Succeeded(pl, st) ==
    \/ (st = "structure" /\ (pl.stage = "emotion" \/ pl.ended_in = "emotion"))
    \/ (st = "emotion" /\ pl.stage = "returned")

\* the delays the retry loop sleeps after the first n failures
RECURSIVE Delays(_)
Delays(n) == IF n = 0 THEN <<>> ELSE Append(Delays(n - 1), retry_delay * (2 ^ (n - 1)))

\* C29: in every generate_letter call, each stage makes at most 3 API calls;
\* a stage that succeeded made no call after the successful one (its calls
\* are its failures and one more); after failed attempt k (k = 0, 1) the
\* stage has slept retry_delay * 2^k, and nothing after the third failure,
\* which ends the call with an error at once; enhance_emotion makes no call
\* when generate_structure has ended with an error.
C29_RetryThreeTimesWithBackoff ==
    \A j \in Jobs : \A st \in Stages :
        LET pl == pipelines[j]
        IN  /\ pl.calls[st] <= 3
            /\ pl.failures[st] <= pl.calls[st]
            /\ Succeeded(pl, st) => pl.calls[st] = pl.failures[st] + 1
            /\ (~Succeeded(pl, st) /\ pl.stage /= "cancelled") => pl.calls[st] = pl.failures[st]
            /\ pl.waits[st] = Delays(IF pl.failures[st] < 3 THEN pl.failures[st] ELSE 2)
            /\ pl.failures[st] = 3 <=> (pl.stage = "raised" /\ pl.ended_in = st)
            /\ (pl.stage = "raised" /\ pl.ended_in = "structure") => pl.calls["emotion"] = 0

\* a call in which generate_structure succeeded at its third attempt and
\* enhance_emotion failed three times
C29_Witness ==
    \E j \in Jobs :
        /\ pipelines[j].stage = "raised"
        /\ pipelines[j].ended_in = "emotion"
        /\ pipelines[j].calls["structure"] = 3
        /\ pipelines[j].waits["emotion"] = << retry_delay, 2 * retry_delay >>

\* ============================================================== discovery
\* the run that the step just appended to runs
NewRun == runs'[Len(runs')]

\* the entries of a list of pending requests that belong to user u
EntriesOf(pending, u) == { i \in 1..Len(pending) : pending[i].user_id = u }

\* C31: what run_hourly_batch(h) gets from get_pending_requests_by_hour(h)
\* holds exactly one entry, with the user id and today's date, for every user
\* whose request of today has generation_hour = h and status pending, and no
\* entry for any other user; for an hour outside valid_generation_hours it
\* is the empty list.
C31_PendingListIsExact ==
    [][ Len(runs') = Len(runs) + 1 =>
          /\ NewRun.hour \notin valid_generation_hours => NewRun.pending = <<>>
          /\ NewRun.hour \in valid_generation_hours =>
                /\ \A u \in Users :
                      Cardinality(EntriesOf(NewRun.pending, u))
                          = IF u \in DOMAIN doc.users
                               /\ IsPendingFor(doc, today, NewRun.hour, u)
                            THEN 1 ELSE 0
                /\ \A i \in 1..Len(NewRun.pending) : NewRun.pending[i].date = today ]_vars

\* ============================================================ failed jobs
\* job i of run r ends in this step without success: its generation timed
\* out or raised, get_user_profile raised, or the letter could not be saved
JobFailsNow(r, i) ==
    /\ r <= Len(runs)
    /\ runs[r].jobs[i].state /= "done"
    /\ runs'[r].jobs[i].state = "done"
    /\ ~runs'[r].jobs[i].success

\* C32: when a job ends without success (timeout, exception of the pipeline or
\* of the letter save), its request is failed in the store, with
\* error_message and processed_at written, and the result of the batch, once
\* returned, lists the user among its errors.
C32_FailedJobLeavesFailedRequest ==
    [][ \A r \in 1..Len(runs') : \A i \in 1..Len(runs'[r].jobs) :
          /\ JobFailsNow(r, i) =>
                LET req == runs'[r].pending[i]
                    stored == doc'.users[req.user_id].requests[req.date]
                IN  /\ stored.status = "failed"
                    /\ stored.error_message
                    /\ stored.processed_at
          /\ (runs'[r].state = "returned" /\ ~runs'[r].jobs[i].success) =>
                \E e \in 1..Len(runs'[r].result.errors) :
                    runs'[r].result.errors[e] = runs'[r].pending[i].user_id ]_vars

\* ================================================================ shutdown
\* a stop_background_processing call on a running processor returns in this
\* step
StopReturnsNow ==
    /\ last_call' /= last_call
    /\ last_call'.op = "stop"
    /\ last_call'.was_running

\* C33: when stop_background_processing, called on a running processor,
\* returns, is_running is false, also when join(timeout=10) ended with a
\* batch still in flight.
C33_StopLeavesProcessorStopped ==
    [][ StopReturnsNow => (~is_running' /\ ~last_call'.running_after) ]_vars

\* ========================================================== batch results
\* the users named by the errors of a result, in order
FailedUsers(run) ==
    LET failed == SelectSeq([ i \in 1..Len(run.jobs) |-> i ],
                            LAMBDA i : ~run.jobs[i].success)
    IN  [ k \in 1..Len(failed) |-> run.pending[failed[k]].user_id ]

\* C34: in the result of every batch that has returned after a fan-out,
\* processed_count = success_count + failed_count = the number of pending
\* requests discovered, and errors holds one entry per failed job, in the
\* order of the jobs, failed_count entries in all.
C34_CountsAddUp ==
    \A r \in 1..Len(runs) :
        (runs[r].state = "returned" /\ Len(runs[r].pending) > 0) =>
            LET res == runs[r].result
            IN  /\ res.processed_count = Len(runs[r].pending)
                /\ res.processed_count = res.success_count + res.failed_count
                /\ Len(res.errors) = res.failed_count
                /\ res.errors = FailedUsers(runs[r])

\* a returned batch of at least two requests with a failed job and a
\* successful one in its result
C34_Witness ==
    \E r \in 1..Len(runs) :
        /\ runs[r].state = "returned"
        /\ runs[r].result.processed_count >= 2
        /\ runs[r].result.failed_count >= 1
        /\ runs[r].result.success_count >= 1
        /\ Len(runs[r].result.errors) = runs[r].result.failed_count

\* the requests of a run whose stored status is st
StoredAs(run, st) ==
    { i \in 1..Len(run.pending) :
        doc.users[run.pending[i].user_id].requests[run.pending[i].date].status = st }

\* C35: when a batch has returned, success_count is the number of its
\* requests that are completed in the store, each with its letter stored,
\* failed_count the number that are failed, and none of the requests it
\* reports as processed is still pending.
C35_CountsAgreeWithStore ==
    \A r \in 1..Len(runs) :
        (runs[r].state = "returned" /\ Len(runs[r].pending) > 0) =>
            /\ runs[r].result.success_count = Cardinality(StoredAs(runs[r], "completed"))
            /\ \A i \in StoredAs(runs[r], "completed") :
                  runs[r].pending[i].date
                      \in DOMAIN doc.users[runs[r].pending[i].user_id].letters
            /\ runs[r].result.failed_count = Cardinality(StoredAs(runs[r], "failed"))
            /\ StoredAs(runs[r], "pending") = {}

\* ============================================================== intake, III
\* the requests map and the daily request counters of user u in document d
\* (both empty for a user the store does not hold)
RequestsAndCounters(d, u) ==
    IF u \in DOMAIN d.users
    THEN << d.users[u].requests, d.users[u].daily_requests >>
    ELSE << EmptyMap, EmptyMap >>

\* C36: a submit_request call that returns success = false leaves every
\* user's requests map and daily request counter as they were, also when the
\* store raised inside record_request after the request had been written.
C36_FailedSubmitLeavesNoRequest ==
    [][ (submits' = submits + 1 /\ ~last_submit'.success) =>
            \A u \in Users : RequestsAndCounters(doc', u) = RequestsAndCounters(doc, u) ]_vars

\* ================================================ a request from intake to batch
\* The intake, one background loop started on the main thread and never
\* stopped, and the batches it invokes, with no store call raising.  The loop
\* polls every check_interval seconds, many times an hour, and a batch or a
\* cleanup ends within its hour: the wall clock leaves an hour only once the
\* loop has polled in it and is back in its sleep.
InvokedSoFar ==
    Cardinality({ hd \in target_hours \X Days : invoked[hd[1], hd[2]] > 0 })

\* the loop has called run_hourly_batch and the call has not started yet
BatchDue == Len(loops) = 1 /\ loops[1].pc = "batch" /\ Len(runs) < InvokedSoFar

\* the run_hourly_batch the loop awaits has returned
BatchDone ==
    /\ Len(loops) = 1 /\ loops[1].pc = "batch"
    /\ Len(runs) = InvokedSoFar
    /\ runs[Len(runs)].state = "returned"

LifeStart == is_running = FALSE /\ loops = <<>> /\ StartBackgroundProcessing(TRUE)

LifeSubmit == \E u \in Users : is_running /\ ~BatchDue /\ SubmitRequest(u, <<"b">>, 2, 0)

LifePoll == ~BatchDue /\ Poll(1)

LifeBatchStarts == BatchDue /\ RunHourlyBatch(loops[1].hour, 0, 0)

LifeJobStarts == \E r \in 1..Len(runs) : \E i \in 1..Len(runs[r].jobs) : StartJob(r, i, 0)

LifeJobEnds ==
    \E r \in 1..Len(runs) : \E i \in 1..Len(runs[r].jobs), gen \in {"ok", "timeout"} :
        FinishJob(r, i, gen, 0)

LifeBatchEnds == \E r \in 1..Len(runs) : FinishBatch(r, 0)

LifeBatchReturns == BatchDone /\ BatchReturns(1, "ok")

LifeCleanupReturns == CleanupReturns(1, "ok")

LifeHourPasses ==
    /\ is_running
    /\ loops[1].pc = "sleep"
    /\ hour_now \in target_hours => << hour_now, today >> \in polled
    /\ hour_now = cleanup_hour => last_cleanup_date = today
    /\ HourPasses

LifeNext ==
    \/ LifeStart
    \/ LifeSubmit
    \/ LifePoll
    \/ LifeBatchStarts
    \/ LifeJobStarts
    \/ LifeJobEnds
    \/ LifeBatchEnds
    \/ LifeBatchReturns
    \/ LifeCleanupReturns
    \/ LifeHourPasses

LifeSpec ==
    /\ RunnerSpecInit
    /\ [][LifeNext]_vars
    /\ WF_vars(LifeStart)
    /\ WF_vars(LifePoll)
    /\ WF_vars(LifeBatchStarts)
    /\ WF_vars(LifeJobStarts)
    /\ WF_vars(LifeJobEnds)
    /\ WF_vars(LifeBatchEnds)
    /\ WF_vars(LifeBatchReturns)
    /\ WF_vars(LifeCleanupReturns)
    /\ WF_vars(LifeHourPasses)

\* user u holds a request keyed by day d with status st
HasRequest(u, d, st) ==
    /\ u \in DOMAIN doc.users
    /\ d \in DOMAIN doc.users[u].requests
    /\ doc.users[u].requests[d].status = st

\* C37: with the background loop running and every generation call returning
\* or timing out, a request accepted on the first day of the model, at
\* whatever hour, is eventually completed or failed (every hour of the
\* following day passes after it).
C37_AcceptedRequestIsProcessed ==
    \A u \in Users :
        HasRequest(u, 0, "pending") ~>
            (HasRequest(u, 0, "completed") \/ HasRequest(u, 0, "failed"))

\* ============================================================ loop threads
\* C38: a BackgroundProcessor never has more than one loop thread alive;
\* while is_running is false no loop of it is alive; and when
\* start_background_processing has returned false on a stopped processor
\* (start-up failed), it has left no loop running.
C38_OneLoopAndFlagAgree ==
    /\ Cardinality(Alive(loops)) <= 1
    /\ ~is_running => Alive(loops) = {}
    /\ (last_call.op = "start" /\ ~last_call.was_running /\ ~last_call.returned) =>
           Alive(loops) = {}

\* ============================================== manual runs and the schedule
\* One loop, started on the main thread, and force_run_batch calls that are
\* made and that return outside the hour they name.
ForceOutsideHour == \E hour \in target_hours \cap HoursOfDay : hour /= hour_now /\ ForceRunBatch(hour)

ForceReturnsOutsideHour == forced.hour /= hour_now /\ ForceReturns

ForcedNext ==
    \/ StartBackgroundProcessing(TRUE)
    \/ Polls
    \/ BatchesReturn
    \/ CleanupsReturn
    \/ ForceOutsideHour
    \/ ForceReturnsOutsideHour
    \/ HourPasses

ForcedSpec == RunnerSpecInit /\ [][ForcedNext]_vars

\* C39: a force_run_batch(h) made on day d outside hour h does not make the
\* loop skip the batch of (h, d): once the loop has polled during hour h of
\* day d it has invoked run_hourly_batch(h) for that day.
C39_ForcedRunKeepsSchedule ==
    \A h \in target_hours, d \in Days : << h, d >> \in polled => invoked[h, d] >= 1

====
